---------------------------- MODULE Spec2Model ----------------------------
(***************************************************************************)
(* Verification model of the cryptohunk decision pipeline:                 *)
(*   RebalancePortfolio._generate_signal / _select_final_recommendations,  *)
(*   CreateTradePlan.generate_trade_plan and                               *)
(*   AnalyzeTrades._generate_realized_pnl_fifo.                            *)
(*                                                                         *)
(* Units.  current_value_usdc and liquid_funds are integers counting       *)
(* 0.002 USDC (a fifth of a cent): portfolio.csv carries 8 decimals, the   *)
(* trade plan renders values with 2, and a fifth of a cent exercises that  *)
(* rounding without ever producing a tie.  percentage_change and the two   *)
(* percentage thresholds count 0.01 % (portfolio.csv carries 2 decimals).  *)
(* FIFO quantities count half units (0.5), prices are whole quote units,   *)
(* so PnL and costs count half quote units.                                *)
(***************************************************************************)
EXTENDS Integers, Sequences, FiniteSets, TLC

VARIABLES
    pc,                  \* position of the running stage
    cfg,                 \* Config: trade_threshold, take_profit_percentage, stop_loss_percentage
    ta_score,            \* _generate_signal argument
    current_value_usdc,  \* _generate_signal argument
    percentage_change,   \* _generate_signal argument
    signal_result,       \* (signal, priority) returned by _generate_signal
    recommendations,     \* list of recommendation dicts given to _select_final_recommendations
    final_recommendations, \* list returned by _select_final_recommendations
    portfolio_df,        \* portfolio.csv: currency -> row (or no row)
    recommendations_df,  \* recommendations.csv: ranked rows (currency, signal)
    sell_recommendations, \* the SELL rows of recommendations_df, in file order
    sell_idx,            \* next row of sell_recommendations to process
    trade_plan,          \* list of trade dicts built by generate_trade_plan
    liquid_funds,        \* running liquid funds of generate_trade_plan
    symbol,              \* the symbol whose ledger is processed
    trades,              \* trades of the symbol as loaded from trades.json
    symbol_trades,       \* trades_by_symbol[symbol] after the sort by time
    trade_idx,           \* next trade of symbol_trades to process
    buy_queue,           \* FIFO queue of open lots (qty, price), oldest first
    remaining_sell_qty,  \* unmatched rest of the sell being processed
    realized_pnl,
    matched_sell_qty,
    total_buy_cost,
    total_sell_revenue,
    commissions,         \* dict asset -> summed commission, in insertion order
    notes,               \* list of notes of the symbol's result
    pnl_results,         \* rows appended for realized_pnl_fifo_by_symbol.csv
    ta_df,               \* indicator rows read from <currency>_ta.csv, oldest first
    prices,              \* Close series given to _calculate_rsi
    rsi_14,              \* series returned by _calculate_rsi (column RSI_14)
    ta_files,            \* currency -> rows of ta/<currency>/<currency>_ta.csv
    run,                 \* number of the pipeline run in progress
    first_run,           \* files and results the first pipeline run left
    plan_file,           \* output/rebalance/trade_plan.csv as execute_trades finds it
    broker,              \* ExecuteTradePlan.broker: "None" or "CCXTBroker"
    calls,               \* calls made on the exchange, in order
    exec_idx,            \* next row of the trade plan to execute
    success_count,
    failure_count,
    run_result           \* what ExecuteTradePlan.run returned

vars == <<pc, cfg, ta_score, current_value_usdc, percentage_change, signal_result,
          recommendations, final_recommendations,
          portfolio_df, recommendations_df, sell_recommendations, sell_idx,
          trade_plan, liquid_funds,
          symbol, trades, symbol_trades, trade_idx, buy_queue, remaining_sell_qty,
          realized_pnl, matched_sell_qty, total_buy_cost, total_sell_revenue,
          commissions, notes, pnl_results, ta_df, prices, rsi_14,
          ta_files, run, first_run,
          plan_file, broker, calls, exec_idx, success_count, failure_count, run_result>>

signalVars == <<ta_score, current_value_usdc, percentage_change, signal_result>>
selectVars == <<recommendations, final_recommendations>>
planVars == <<portfolio_df, recommendations_df, sell_recommendations, sell_idx,
              trade_plan, liquid_funds>>

fifoVars == <<symbol, trades, symbol_trades, trade_idx, buy_queue, remaining_sell_qty,
              realized_pnl, matched_sell_qty, total_buy_cost, total_sell_revenue,
              commissions, notes, pnl_results>>

taVars == <<ta_df>>
rsiVars == <<prices, rsi_14>>
pipeVars == <<ta_files, run, first_run>>
execVars == <<plan_file, broker, calls, exec_idx, success_count, failure_count, run_result>>

\* Values of the variables of a stage that is not running.
SignalIdle ==
    /\ ta_score = 0 /\ current_value_usdc = 0 /\ percentage_change = 0
    /\ signal_result = [signal |-> "NONE", priority |-> 0]
SelectIdle == recommendations = <<>> /\ final_recommendations = <<>>
PlanIdle ==
    /\ portfolio_df = <<>> /\ recommendations_df = <<>> /\ sell_recommendations = <<>>
    /\ sell_idx = 0 /\ trade_plan = <<>> /\ liquid_funds = 0
TaIdle == ta_df = <<>>
RsiIdle == prices = <<>> /\ rsi_14 = <<>>
PipeIdle == ta_files = <<>> /\ run = 0 /\ first_run = <<>>
ExecIdle ==
    /\ plan_file = <<>> /\ broker = "None" /\ calls = <<>> /\ exec_idx = 0
    /\ success_count = 0 /\ failure_count = 0 /\ run_result = "None"
FifoIdle ==
    /\ symbol = <<>> /\ trades = <<>> /\ symbol_trades = <<>> /\ trade_idx = 0
    /\ buy_queue = <<>> /\ remaining_sell_qty = 0
    /\ realized_pnl = 0 /\ matched_sell_qty = 0
    /\ total_buy_cost = 0 /\ total_sell_revenue = 0
    /\ commissions = <<>> /\ notes = <<>> /\ pnl_results = <<>>

-----------------------------------------------------------------------------
(* Bounds and input sets                                                   *)

\* Largest |TA score| drawn as an input (TA1 scores lie in -4..4, TA2 in -1..1).
MaxScore == 4

\* One USDC in model units of 0.002 USDC.
Usdc(n) == n * 500

\* Configurations drawn: the thresholds the test suites use.
Configs ==
    { [trade_threshold |-> Usdc(100), take_profit_percentage |-> 1000, stop_loss_percentage |-> 600],
      [trade_threshold |-> Usdc(100), take_profit_percentage |-> 1500, stop_loss_percentage |-> 800] }

\* Holding values around the trade threshold (0.002 USDC units).
SignalValues == { 0, Usdc(50), Usdc(100) - 1, Usdc(100), Usdc(100) + 1, Usdc(150) }

\* Percentage changes around both pairs of thresholds (0.01 % units).
SignalPcts == { -900, -801, -800, -700, -601, -600, -599, 0, 500, 1000, 1001, 1200, 1500, 1501 }

NoResult == [signal |-> "NONE", priority |-> 0]

\* Longest recommendation batch drawn.
MaxRecs == 4

\* Largest |TA score| carried by the recommendations of a drawn batch.
MaxRankScore == 1

\* Longest ranked recommendation file given to generate_trade_plan.
MaxPlanRecs == 4

\* Longest ledger of one symbol drawn.
MaxTrades == 3

\* Configured currencies, in configured order (cfg.currencies).
CurrencyNames == <<"BTC", "ETH", "SOL", "ADA", "XRP", "DOT">>

-----------------------------------------------------------------------------
(* RebalancePortfolio._generate_signal                                     *)

\* Raw TA signal: score >= 1 BUY, score <= -1 SELL, else HOLD.
RawSignal(score) ==
    IF score >= 1 THEN "BUY" ELSE IF score <= -1 THEN "SELL" ELSE "HOLD"

\* Variants of _generate_signal, each differing from it by one plausible slip.
_generate_signal_tp_inclusive(c, score, value, pct) ==
    IF value < c.trade_threshold
    THEN IF pct >= c.take_profit_percentage
         THEN [signal |-> "SELL", priority |-> 1]
         ELSE IF score <= -1
              THEN [signal |-> "HOLD", priority |-> 3]
              ELSE [signal |-> RawSignal(score), priority |-> 3]
    ELSE IF pct < -c.stop_loss_percentage
         THEN [signal |-> "SELL", priority |-> 2]
         ELSE [signal |-> RawSignal(score), priority |-> 3]

_generate_signal_sl_inclusive(c, score, value, pct) ==
    IF value < c.trade_threshold
    THEN IF pct > c.take_profit_percentage
         THEN [signal |-> "SELL", priority |-> 1]
         ELSE IF score <= -1
              THEN [signal |-> "HOLD", priority |-> 3]
              ELSE [signal |-> RawSignal(score), priority |-> 3]
    ELSE IF pct <= -c.stop_loss_percentage
         THEN [signal |-> "SELL", priority |-> 2]
         ELSE [signal |-> RawSignal(score), priority |-> 3]

_generate_signal_no_guard(c, score, value, pct) ==
    IF value < c.trade_threshold
    THEN IF pct > c.take_profit_percentage
         THEN [signal |-> "SELL", priority |-> 1]
         ELSE [signal |-> RawSignal(score), priority |-> 3]
    ELSE IF pct < -c.stop_loss_percentage
         THEN [signal |-> "SELL", priority |-> 2]
         ELSE [signal |-> RawSignal(score), priority |-> 3]

_generate_signal_guard_first(c, score, value, pct) ==
    IF value < c.trade_threshold
    THEN IF score <= -1
         THEN [signal |-> "HOLD", priority |-> 3]
         ELSE IF pct > c.take_profit_percentage
              THEN [signal |-> "SELL", priority |-> 1]
              ELSE [signal |-> RawSignal(score), priority |-> 3]
    ELSE IF pct < -c.stop_loss_percentage
         THEN [signal |-> "SELL", priority |-> 2]
         ELSE [signal |-> RawSignal(score), priority |-> 3]

_generate_signal(c, score, value, pct) ==
    IF value < c.trade_threshold
    THEN IF pct > c.take_profit_percentage
         THEN [signal |-> "SELL", priority |-> 1]
         ELSE IF score <= -1
              THEN [signal |-> "HOLD", priority |-> 3]
              ELSE [signal |-> RawSignal(score), priority |-> 3]
    ELSE IF pct < -c.stop_loss_percentage
         THEN [signal |-> "SELL", priority |-> 2]
         ELSE [signal |-> RawSignal(score), priority |-> 3]

-----------------------------------------------------------------------------
(* Specification SpecSignal: _generate_signal applied to drawn inputs      *)

InitSignal ==
    /\ pc = "signal_call"
    /\ cfg \in Configs
    /\ TaIdle
    /\ RsiIdle
    /\ ta_score \in -MaxScore..MaxScore
    /\ current_value_usdc \in SignalValues
    /\ percentage_change \in SignalPcts
    /\ signal_result = NoResult
    /\ SelectIdle
    /\ PipeIdle
    /\ ExecIdle
    /\ PlanIdle
    /\ FifoIdle

GenerateSignal ==
    /\ pc = "signal_call"
    /\ signal_result' = _generate_signal(cfg, ta_score, current_value_usdc, percentage_change)
    /\ pc' = "signal_done"
    /\ UNCHANGED <<cfg, taVars, rsiVars, pipeVars, execVars, ta_score, current_value_usdc, percentage_change, selectVars, planVars, fifoVars>>

NextSignal == GenerateSignal

SpecSignal == InitSignal /\ [][NextSignal]_vars

-----------------------------------------------------------------------------
(* RebalancePortfolio._select_final_recommendations                        *)

Abs(n) == IF n < 0 THEN -n ELSE n

\* The recommendation dict built by generate_recommendations.
Recommendation(currency, score, sp) ==
    [currency |-> currency, ta_score |-> score, signal |-> sp.signal,
     priority |-> sp.priority, abs_ta_score |-> Abs(score)]

\* Filter of a list by a predicate on signals, keeping order.
RECURSIVE FilterSignal(_, _)
FilterSignal(recs, keep) ==
    IF recs = <<>> THEN <<>>
    ELSE IF Head(recs).signal \in keep
         THEN <<Head(recs)>> \o FilterSignal(Tail(recs), keep)
         ELSE FilterSignal(Tail(recs), keep)

\* Sort key (priority, -abs_ta_score), compared as Python compares tuples.
KeyLess(a, b) ==
    \/ a.priority < b.priority
    \/ a.priority = b.priority /\ -a.abs_ta_score < -b.abs_ta_score

\* list.sort is stable: an element goes before the first element whose key is
\* strictly greater, elements are taken left to right.
RECURSIVE InsertByKey(_, _)
InsertByKey(sorted, r) ==
    IF sorted = <<>> THEN <<r>>
    ELSE IF KeyLess(r, Head(sorted))
         THEN <<r>> \o sorted
         ELSE <<Head(sorted)>> \o InsertByKey(Tail(sorted), r)

RECURSIVE SortByKey(_, _)
SortByKey(sorted, rest) ==
    IF rest = <<>> THEN sorted
    ELSE SortByKey(InsertByKey(sorted, Head(rest)), Tail(rest))

\* Variant: the earlier single-BUY policy (keep only the first-ranked BUY).
RECURSIVE DropLaterBuys(_, _)
DropLaterBuys(recs, seenBuy) ==
    IF recs = <<>> THEN <<>>
    ELSE IF Head(recs).signal = "BUY"
         THEN IF seenBuy THEN DropLaterBuys(Tail(recs), TRUE)
              ELSE <<Head(recs)>> \o DropLaterBuys(Tail(recs), TRUE)
         ELSE <<Head(recs)>> \o DropLaterBuys(Tail(recs), seenBuy)

_select_final_recommendations_single_buy(recs) ==
    DropLaterBuys(SortByKey(<<>>, FilterSignal(recs, {"BUY", "SELL"})), FALSE)

_select_final_recommendations(recs) ==
    LET active_recommendations == FilterSignal(recs, {"BUY", "SELL"})
    IN  IF active_recommendations = <<>> THEN <<>>
        ELSE SortByKey(<<>>, active_recommendations)

-----------------------------------------------------------------------------
(* Specification SpecSelect: _select_final_recommendations applied to a    *)
(* batch of recommendations that _generate_signal can produce              *)

\* The (score, signal, priority) triples generate_recommendations can obtain
\* for one currency.
RecKinds ==
    { <<s, _generate_signal(c, s, v, p)>> :
        s \in -MaxRankScore..MaxRankScore, c \in Configs,
        v \in SignalValues, p \in SignalPcts }

\* A batch: one recommendation per configured currency, in configured order.
BatchOf(kinds) ==
    [i \in DOMAIN kinds |-> Recommendation(CurrencyNames[i], kinds[i][1], kinds[i][2])]

InitSelect ==
    /\ pc = "select_call"
    /\ PipeIdle
    /\ ExecIdle
    /\ cfg = CHOOSE c \in Configs : c.take_profit_percentage = 1000
    /\ TaIdle
    /\ RsiIdle
    /\ SignalIdle
    /\ PlanIdle
    /\ FifoIdle
    /\ \E n \in 0..MaxRecs : \E kinds \in [1..n -> RecKinds] :
           recommendations = BatchOf(kinds)
    /\ final_recommendations = <<>>

SelectFinalRecommendations ==
    /\ pc = "select_call"
    /\ final_recommendations' = _select_final_recommendations(recommendations)
    /\ pc' = "select_done"
    /\ UNCHANGED <<cfg, taVars, rsiVars, pipeVars, execVars, signalVars, recommendations, planVars, fifoVars>>

NextSelect == SelectFinalRecommendations

SpecSelect == InitSelect /\ [][NextSelect]_vars

-----------------------------------------------------------------------------
(* CreateTradePlan.generate_trade_plan                                     *)

NoRow == [present |-> FALSE, balance |-> 0, current_value_usdc |-> 0]

\* f"{x:.2f}" of a value counted in 0.002 USDC: the nearest whole cent, again
\* counted in 0.002 USDC (a fifth of a cent never lies halfway).
Format2(v) == ((v + 2) \div 5) * 5

\* f"{balance:.8f}" of a balance that portfolio.csv carries with 8 decimals:
\* every digit is kept.  Balances are counted in 0.000001 (the drawn balances
\* need no more digits).
Format8(b) == b

QtyAmount(b) == [kind |-> "QTY", qty |-> Format8(b)]
AllAmount == [kind |-> "ALL", qty |-> 0]

_get_liquid_funds(portfolio) ==
    LET usdc_row == portfolio["USDC"]
    IN  IF ~usdc_row.present THEN 0 ELSE usdc_row.current_value_usdc

\* One iteration of the SELL loop: the trades appended for one SELL row.
\* Variants: a SELL row sold whatever the holding is worth; a holding worth
\* exactly the threshold sold.
SellTrades_any_value(rec, portfolio, threshold) ==
    LET portfolio_row == portfolio[rec.currency]
    IN  IF ~portfolio_row.present THEN <<>>
        ELSE << [action |-> "SELL", currency |-> rec.currency,
                 amount |-> QtyAmount(portfolio_row.balance),
                 value_usdc |-> Format2(portfolio_row.current_value_usdc)] >>

SellTrades_inclusive(rec, portfolio, threshold) ==
    LET portfolio_row == portfolio[rec.currency]
    IN  IF ~portfolio_row.present THEN <<>>
        ELSE IF portfolio_row.current_value_usdc >= threshold
             THEN << [action |-> "SELL", currency |-> rec.currency,
                      amount |-> QtyAmount(portfolio_row.balance),
                      value_usdc |-> Format2(portfolio_row.current_value_usdc)] >>
             ELSE <<>>

SellTrades(rec, portfolio, threshold) ==
    LET portfolio_row == portfolio[rec.currency]
    IN  IF ~portfolio_row.present THEN <<>>
        ELSE IF portfolio_row.current_value_usdc > threshold
             THEN << [action |-> "SELL", currency |-> rec.currency,
                      amount |-> QtyAmount(portfolio_row.balance),
                      value_usdc |-> Format2(portfolio_row.current_value_usdc)] >>
             ELSE <<>>

\* What one iteration of the SELL loop adds to liquid_funds.
SellProceeds(rec, portfolio, threshold) ==
    IF SellTrades(rec, portfolio, threshold) = <<>> THEN 0
    ELSE portfolio[rec.currency].current_value_usdc

\* The BUY step: the trades appended after the SELL loop.
BuyTrades_every_buy(recs, funds, threshold) ==
    IF funds > threshold
    THEN LET buy_recommendations == FilterSignal(recs, {"BUY"})
         IN  [i \in DOMAIN buy_recommendations |->
                [action |-> "BUY", currency |-> buy_recommendations[i].currency,
                 amount |-> AllAmount, value_usdc |-> Format2(funds)]]
    ELSE <<>>

BuyTrades_funds_inclusive(recs, funds, threshold) ==
    IF funds >= threshold
    THEN LET buy_recommendations == FilterSignal(recs, {"BUY"})
         IN  IF buy_recommendations # <<>>
             THEN << [action |-> "BUY", currency |-> buy_recommendations[1].currency,
                      amount |-> AllAmount, value_usdc |-> Format2(funds)] >>
             ELSE <<>>
    ELSE <<>>

BuyTrades(recs, funds, threshold) ==
    IF funds > threshold
    THEN LET buy_recommendations == FilterSignal(recs, {"BUY"})
         IN  IF buy_recommendations # <<>>
             THEN << [action |-> "BUY", currency |-> buy_recommendations[1].currency,
                      amount |-> AllAmount, value_usdc |-> Format2(funds)] >>
             ELSE <<>>
    ELSE <<>>

-----------------------------------------------------------------------------
(* Specification SpecPlan: generate_trade_plan on a drawn portfolio and    *)
(* ranked recommendation file                                              *)

\* Rows of portfolio.csv for a traded currency: (balance in 0.000001,
\* value in 0.002 USDC) with values below, at and above the threshold.
PlanRows ==
    { [present |-> TRUE, balance |-> 1000,      current_value_usdc |-> Usdc(50) + 2],
      [present |-> TRUE, balance |-> 2000,      current_value_usdc |-> Usdc(100)],
      [present |-> TRUE, balance |-> 5000,      current_value_usdc |-> Usdc(250) + 2],
      [present |-> TRUE, balance |-> 100000,    current_value_usdc |-> Usdc(300) + 3] }

\* Rows of portfolio.csv for the liquid asset.
UsdcRows ==
    { [present |-> TRUE, balance |-> 50000000,  current_value_usdc |-> Usdc(50)],
      [present |-> TRUE, balance |-> 100000000, current_value_usdc |-> Usdc(100)],
      [present |-> TRUE, balance |-> 100004000, current_value_usdc |-> Usdc(100) + 2] }

PlanCurrencies == { CurrencyNames[i] : i \in 1..MaxPlanRecs }

\* The i-th ranked row is about the i-th currency name; the portfolio rows are
\* drawn independently of the rank.
InitPlan ==
    /\ pc = "plan_call"
    /\ cfg = CHOOSE c \in Configs : c.take_profit_percentage = 1000
    /\ TaIdle
    /\ RsiIdle
    /\ SignalIdle
    /\ SelectIdle
    /\ PipeIdle
    /\ ExecIdle
    /\ FifoIdle
    /\ \E n \in 0..MaxPlanRecs :
         /\ \E sigs \in [1..n -> {"BUY", "SELL"}] :
              recommendations_df = [i \in 1..n |-> [currency |-> CurrencyNames[i], signal |-> sigs[i]]]
         /\ \E rows \in [1..n -> PlanRows \cup {NoRow}] : \E usdc \in UsdcRows \cup {NoRow} :
              portfolio_df = [c \in PlanCurrencies \cup {"USDC"} |->
                                IF c = "USDC" THEN usdc
                                ELSE IF \E i \in 1..n : CurrencyNames[i] = c
                                     THEN rows[CHOOSE i \in 1..n : CurrencyNames[i] = c]
                                     ELSE NoRow]
    /\ sell_recommendations = <<>>
    /\ sell_idx = 0
    /\ trade_plan = <<>>
    /\ liquid_funds = 0

\* Lines 118-133: read the inputs, start with the liquid asset's value.
\* The variant goes on from the plan and the funds it finds.
StartTradePlan_keep_plan ==
    /\ pc = "plan_call"
    /\ trade_plan' = trade_plan
    /\ liquid_funds' = liquid_funds + _get_liquid_funds(portfolio_df)
    /\ sell_recommendations' = FilterSignal(recommendations_df, {"SELL"})
    /\ sell_idx' = 1
    /\ pc' = "plan_sells"
    /\ UNCHANGED <<cfg, taVars, rsiVars, pipeVars, execVars, signalVars, selectVars, fifoVars, portfolio_df, recommendations_df>>

StartTradePlan ==
    /\ pc = "plan_call"
    /\ trade_plan' = <<>>
    /\ liquid_funds' = _get_liquid_funds(portfolio_df)
    /\ sell_recommendations' = FilterSignal(recommendations_df, {"SELL"})
    /\ sell_idx' = 1
    /\ pc' = "plan_sells"
    /\ UNCHANGED <<cfg, taVars, rsiVars, pipeVars, execVars, signalVars, selectVars, fifoVars, portfolio_df, recommendations_df>>

\* Lines 135-164: one iteration of the SELL loop.
ProcessSell ==
    /\ pc = "plan_sells"
    /\ sell_idx <= Len(sell_recommendations)
    /\ LET rec == sell_recommendations[sell_idx]
       IN  /\ trade_plan' = trade_plan \o SellTrades(rec, portfolio_df, cfg.trade_threshold)
           /\ liquid_funds' = liquid_funds + SellProceeds(rec, portfolio_df, cfg.trade_threshold)
    /\ sell_idx' = sell_idx + 1
    /\ UNCHANGED <<pc, cfg, taVars, rsiVars, pipeVars, execVars, signalVars, selectVars, fifoVars, portfolio_df, recommendations_df,
                   sell_recommendations>>

\* Lines 166-191: the BUY step and the return.
ProcessBuy ==
    /\ pc = "plan_sells"
    /\ sell_idx > Len(sell_recommendations)
    /\ trade_plan' = trade_plan \o BuyTrades(recommendations_df, liquid_funds, cfg.trade_threshold)
    /\ pc' = "plan_done"
    /\ UNCHANGED <<cfg, taVars, rsiVars, pipeVars, execVars, signalVars, selectVars, fifoVars, portfolio_df, recommendations_df,
                   sell_recommendations, sell_idx, liquid_funds>>

NextPlan == StartTradePlan \/ ProcessSell \/ ProcessBuy

SpecPlan == InitPlan /\ [][NextPlan]_vars

-----------------------------------------------------------------------------
(* AnalyzeTrades._generate_realized_pnl_fifo, for the ledger of one symbol *)
(* (symbols are grouped first and processed independently)                 *)

\* Strings that the code inspects by suffix are sequences of characters.
USDT == <<"U", "S", "D", "T">>
USDC == <<"U", "S", "D", "C">>
BUSD == <<"B", "U", "S", "D">>
BTC  == <<"B", "T", "C">>
ETH  == <<"E", "T", "H">>
BNB  == <<"B", "N", "B">>
EUR  == <<"E", "U", "R">>
GBP  == <<"G", "B", "P">>

common_quotes == <<USDT, USDC, BUSD, BTC, ETH, BNB, EUR, GBP>>

\* str.endswith
EndsWith(str, suffix) ==
    /\ Len(str) >= Len(suffix)
    /\ SubSeq(str, Len(str) - Len(suffix) + 1, Len(str)) = suffix

\* None is the empty sequence.
_extract_quote_asset(sym) ==
    IF \E i \in 1..Len(common_quotes) : EndsWith(sym, common_quotes[i])
    THEN common_quotes[CHOOSE i \in 1..Len(common_quotes) :
                         /\ EndsWith(sym, common_quotes[i])
                         /\ \A j \in 1..(i - 1) : ~EndsWith(sym, common_quotes[j])]
    ELSE <<>>

\* list.sort(key=time): stable, ascending.
RECURSIVE InsertByTime(_, _)
InsertByTime(sorted, t) ==
    IF sorted = <<>> THEN <<t>>
    ELSE IF t.time < Head(sorted).time
         THEN <<t>> \o sorted
         ELSE <<Head(sorted)>> \o InsertByTime(Tail(sorted), t)

RECURSIVE SortByTime(_, _)
SortByTime(sorted, rest) ==
    IF rest = <<>> THEN sorted
    ELSE SortByTime(InsertByTime(sorted, Head(rest)), Tail(rest))

\* commissions[asset] += commission on a defaultdict(Decimal): a new key goes
\* last, an existing key keeps its place.
AddCommission(comms, asset, amount) ==
    IF \E i \in 1..Len(comms) : comms[i].asset = asset
    THEN [i \in 1..Len(comms) |->
            IF comms[i].asset = asset
            THEN [asset |-> asset, total |-> comms[i].total + amount]
            ELSE comms[i]]
    ELSE Append(comms, [asset |-> asset, total |-> amount])

CommissionOf(comms, asset) ==
    comms[CHOOSE i \in 1..Len(comms) : comms[i].asset = asset].total

RECURSIVE SumTotals(_)
SumTotals(comms) ==
    IF comms = <<>> THEN 0 ELSE Head(comms).total + SumTotals(Tail(comms))

Note(kind, qty, assets) == [kind |-> kind, qty |-> qty, assets |-> assets]

\* One pass of the matching loop: the quantity matched against the head lot.
MatchedQty_whole_lot(buy_qty, remaining) == buy_qty

MatchedQty(buy_qty, remaining) ==
    IF buy_qty <= remaining THEN buy_qty ELSE remaining

\* One pass of the matching loop: the queue it leaves.
QueueAfterMatch(queue, remaining) ==
    IF queue[1].qty <= remaining
    THEN Tail(queue)
    ELSE << [qty |-> queue[1].qty - remaining, price |-> queue[1].price] >> \o Tail(queue)

RECURSIVE SumQty(_)
SumQty(queue) ==
    IF queue = <<>> THEN 0 ELSE Head(queue).qty + SumQty(Tail(queue))

\* A division that drops the digits beyond the third decimal.
DecimalDiv_truncating(total, qty) == (total * 1000) \div qty

\* Decimal division total / qty.  total counts half quote units and qty half
\* units, so the quotient is a price in quote units; it is kept with three
\* decimals (counted in 0.001), rounded half-even as the Decimal context does.
DecimalDiv(total, qty) ==
    LET n == total * 1000
        q == n \div qty
        r == n % qty
    IN  IF 2 * r > qty THEN q + 1
        ELSE IF 2 * r < qty THEN q
        ELSE IF q % 2 = 0 THEN q ELSE q + 1

\* Lines 207-229: group, sort by time, reset the accumulators.
FifoStart ==
    /\ pc = "fifo_call"
    /\ symbol_trades' = SortByTime(<<>>, trades)
    /\ trade_idx' = 1
    /\ buy_queue' = <<>>
    /\ realized_pnl' = 0
    /\ matched_sell_qty' = 0
    /\ total_buy_cost' = 0
    /\ total_sell_revenue' = 0
    /\ commissions' = <<>>
    /\ notes' = <<>>
    /\ pnl_results' = <<>>
    /\ remaining_sell_qty' = 0
    /\ pc' = "fifo_loop"
    /\ UNCHANGED <<cfg, taVars, rsiVars, pipeVars, execVars, signalVars, selectVars, planVars, symbol, trades>>

\* Lines 231-249: the head of one iteration of the trade loop.
ProcessTrade ==
    /\ pc = "fifo_loop"
    /\ trade_idx <= Len(symbol_trades)
    /\ LET trade == symbol_trades[trade_idx]
       IN  /\ commissions' = IF trade.commission > 0
                             THEN AddCommission(commissions, trade.commissionAsset,
                                                trade.commission)
                             ELSE commissions
           /\ IF trade.isBuyer
              THEN /\ buy_queue' = Append(buy_queue, [qty |-> trade.qty, price |-> trade.price])
                   /\ trade_idx' = trade_idx + 1
                   /\ UNCHANGED <<pc, remaining_sell_qty>>
              ELSE /\ remaining_sell_qty' = trade.qty
                   /\ pc' = "fifo_match"
                   /\ UNCHANGED <<buy_queue, trade_idx>>
    /\ UNCHANGED <<cfg, taVars, rsiVars, pipeVars, execVars, signalVars, selectVars, planVars, symbol, trades, symbol_trades,
                   realized_pnl, matched_sell_qty, total_buy_cost, total_sell_revenue,
                   notes, pnl_results>>

\* Lines 251-272: one pass of the matching loop of a sell.
MatchStep ==
    /\ pc = "fifo_match"
    /\ remaining_sell_qty > 0 /\ buy_queue # <<>>
    /\ LET price == symbol_trades[trade_idx].price
           buy_price == buy_queue[1].price
           matched_qty == MatchedQty(buy_queue[1].qty, remaining_sell_qty)
           buy_cost == matched_qty * buy_price
           sell_value == matched_qty * price
       IN  /\ buy_queue' = QueueAfterMatch(buy_queue, remaining_sell_qty)
           /\ realized_pnl' = realized_pnl + (sell_value - buy_cost)
           /\ matched_sell_qty' = matched_sell_qty + matched_qty
           /\ total_buy_cost' = total_buy_cost + buy_cost
           /\ total_sell_revenue' = total_sell_revenue + sell_value
           /\ remaining_sell_qty' = remaining_sell_qty - matched_qty
    /\ UNCHANGED <<pc, cfg, taVars, rsiVars, pipeVars, execVars, signalVars, selectVars, planVars, symbol, trades, symbol_trades,
                   trade_idx, commissions, notes, pnl_results>>

\* Lines 274-275: the note a sell leaves for the quantity it could not match.
UnmatchedSellNotes_whole_sell(ns, remaining, sell_qty) ==
    IF remaining > 0 THEN Append(ns, Note("Unmatched sell", sell_qty, <<>>)) ELSE ns

UnmatchedSellNotes(ns, remaining, sell_qty) ==
    IF remaining > 0 THEN Append(ns, Note("Unmatched sell", remaining, <<>>)) ELSE ns

\* Lines 274-275: the matching loop ended; note what the sell left unmatched.
EndSell ==
    /\ pc = "fifo_match"
    /\ ~(remaining_sell_qty > 0 /\ buy_queue # <<>>)
    /\ notes' = UnmatchedSellNotes(notes, remaining_sell_qty, symbol_trades[trade_idx].qty)
    /\ trade_idx' = trade_idx + 1
    /\ pc' = "fifo_loop"
    /\ UNCHANGED <<cfg, taVars, rsiVars, pipeVars, execVars, signalVars, selectVars, planVars, symbol, trades, symbol_trades,
                   buy_queue, remaining_sell_qty, realized_pnl, matched_sell_qty,
                   total_buy_cost, total_sell_revenue, commissions, pnl_results>>

\* Lines 281-283: the note for the lots left open.
UnmatchedBuyNotes_head_lot(ns, queue) ==
    IF queue # <<>> THEN Append(ns, Note("Unmatched buy", queue[1].qty, <<>>)) ELSE ns

UnmatchedBuyNotes(ns, queue) ==
    IF queue # <<>> THEN Append(ns, Note("Unmatched buy", SumQty(queue), <<>>)) ELSE ns

\* Lines 286-287: total / matched_sell_qty if matched_sell_qty > 0 else 0.
AvgPrice(total, matched) ==
    IF matched > 0 THEN DecimalDiv(total, matched) ELSE 0

\* Line 291: quote_asset and quote_asset in commissions.
QuoteCharged(comms, quote_asset) ==
    /\ quote_asset # <<>>
    /\ \E i \in 1..Len(comms) : comms[i].asset = quote_asset

\* Lines 289-296: net PnL.
NetPnl_all_fees(gross_pnl, comms, quote_asset) ==
    IF comms # <<>>
    THEN gross_pnl - SumTotals(comms)
    ELSE gross_pnl

NetPnl(gross_pnl, comms, quote_asset) ==
    IF QuoteCharged(comms, quote_asset)
    THEN gross_pnl - CommissionOf(comms, quote_asset)
    ELSE gross_pnl

\* Lines 291-299: the note about commissions.
FeeNotes(ns, comms, quote_asset) ==
    IF QuoteCharged(comms, quote_asset)
    THEN Append(ns, Note("Commission subtracted", 0, <<quote_asset>>))
    ELSE IF comms # <<>>
         THEN Append(ns, Note("Fees not converted", 0,
                              [i \in 1..Len(comms) |-> comms[i].asset]))
         ELSE ns

\* Lines 281-308: the symbol's result row.
FifoFinish ==
    /\ pc = "fifo_loop"
    /\ trade_idx > Len(symbol_trades)
    /\ LET notes1 == UnmatchedBuyNotes(notes, buy_queue)
           avg_buy_price == AvgPrice(total_buy_cost, matched_sell_qty)
           avg_sell_price == AvgPrice(total_sell_revenue, matched_sell_qty)
           quote_asset == _extract_quote_asset(symbol)
           gross_pnl == realized_pnl
           net_pnl == NetPnl(gross_pnl, commissions, quote_asset)
           notes2 == FeeNotes(notes1, commissions, quote_asset)
       IN  /\ notes' = notes2
           /\ pnl_results' = Append(pnl_results,
                  [symbol |-> symbol, realized_pnl_quote |-> net_pnl,
                   matched_sell_qty |-> matched_sell_qty,
                   avg_buy_price |-> avg_buy_price, avg_sell_price |-> avg_sell_price,
                   notes |-> notes2])
    /\ pc' = "fifo_done"
    /\ UNCHANGED <<cfg, taVars, rsiVars, pipeVars, execVars, signalVars, selectVars, planVars, symbol, trades, symbol_trades,
                   trade_idx, buy_queue, remaining_sell_qty, realized_pnl, matched_sell_qty,
                   total_buy_cost, total_sell_revenue, commissions>>

NextFifo == FifoStart \/ ProcessTrade \/ MatchStep \/ EndSell \/ FifoFinish

-----------------------------------------------------------------------------
(* Specification SpecFifo: the FIFO engine on a drawn chronological ledger *)
(* of BTCUSDT without commissions                                          *)

\* Quantities in half units, prices in quote units.
TradeQtys == {1, 2, 3}
BuyPrices == {50000, 52000}
SellPrices == {49000, 55000}

LedgerTrades ==
    { [isBuyer |-> TRUE, qty |-> q, price |-> p] : q \in TradeQtys, p \in BuyPrices }
    \cup { [isBuyer |-> FALSE, qty |-> q, price |-> p] : q \in TradeQtys, p \in SellPrices }

InitFifo ==
    /\ pc = "fifo_call"
    /\ cfg = CHOOSE c \in Configs : c.take_profit_percentage = 1000
    /\ TaIdle
    /\ RsiIdle
    /\ SignalIdle
    /\ SelectIdle
    /\ PipeIdle
    /\ ExecIdle
    /\ PlanIdle
    /\ symbol = BTC \o USDT
    /\ \E n \in 0..MaxTrades : \E ts \in [1..n -> LedgerTrades] :
         trades = [i \in 1..n |->
                     [time |-> i, isBuyer |-> ts[i].isBuyer, qty |-> ts[i].qty,
                      price |-> ts[i].price, commission |-> 0, commissionAsset |-> BNB]]
    /\ symbol_trades = <<>> /\ trade_idx = 0
    /\ buy_queue = <<>> /\ remaining_sell_qty = 0
    /\ realized_pnl = 0 /\ matched_sell_qty = 0
    /\ total_buy_cost = 0 /\ total_sell_revenue = 0
    /\ commissions = <<>> /\ notes = <<>> /\ pnl_results = <<>>

SpecFifo == InitFifo /\ [][NextFifo]_vars

\* The engine is sequential code: while a step of it can be taken, one is.
SpecFifoLive == InitFifo /\ [][NextFifo]_vars /\ WF_vars(NextFifo)

-----------------------------------------------------------------------------
(* Specification SpecFifoFees: the FIFO engine on chronological ledgers    *)
(* whose trades are charged commissions, for symbols with several quotes   *)

\* Longest ledger drawn with commissions.
MaxFeeTrades == 2

DAI == <<"D", "A", "I">>

\* BTCUSDT and ETHBTC end with a known quote asset, BTCDAI with none.
FeeSymbols == { BTC \o USDT, ETH \o BTC, BTC \o DAI }

\* Commission amounts (in the unit of PnL when charged in the quote asset)
\* and the assets they are charged in.
FeeAmounts == {0, 3}
FeeAssets == { USDT, BNB, BTC }

FeeTrades ==
    { [isBuyer |-> b, qty |-> q, price |-> IF b THEN 50000 ELSE 55000,
       commission |-> c, commissionAsset |-> a] :
         b \in BOOLEAN, q \in {1, 2}, c \in FeeAmounts, a \in FeeAssets }

InitFifoFees ==
    /\ pc = "fifo_call"
    /\ cfg = CHOOSE c \in Configs : c.take_profit_percentage = 1000
    /\ TaIdle
    /\ RsiIdle
    /\ SignalIdle
    /\ SelectIdle
    /\ PipeIdle
    /\ ExecIdle
    /\ PlanIdle
    /\ symbol \in FeeSymbols
    /\ \E n \in 0..MaxFeeTrades : \E ts \in [1..n -> FeeTrades] :
         trades = [i \in 1..n |->
                     [time |-> i, isBuyer |-> ts[i].isBuyer, qty |-> ts[i].qty,
                      price |-> ts[i].price, commission |-> ts[i].commission,
                      commissionAsset |-> ts[i].commissionAsset]]
    /\ symbol_trades = <<>> /\ trade_idx = 0
    /\ buy_queue = <<>> /\ remaining_sell_qty = 0
    /\ realized_pnl = 0 /\ matched_sell_qty = 0
    /\ total_buy_cost = 0 /\ total_sell_revenue = 0
    /\ commissions = <<>> /\ notes = <<>> /\ pnl_results = <<>>

SpecFifoFees == InitFifoFees /\ [][NextFifo]_vars

-----------------------------------------------------------------------------
(* Specification SpecFifoOrder: the FIFO engine on ledgers of BTCUSDT      *)
(* given in any order of their times                                       *)

\* Longest ledger drawn with arbitrary times.
MaxOrderTrades == 2

InitFifoOrder ==
    /\ pc = "fifo_call"
    /\ cfg = CHOOSE c \in Configs : c.take_profit_percentage = 1000
    /\ TaIdle
    /\ RsiIdle
    /\ SignalIdle
    /\ SelectIdle
    /\ PipeIdle
    /\ ExecIdle
    /\ PlanIdle
    /\ symbol = BTC \o USDT
    /\ \E n \in 0..MaxOrderTrades : \E ts \in [1..n -> LedgerTrades] :
         \E times \in [1..n -> 1..n] :
           trades = [i \in 1..n |->
                       [time |-> times[i], isBuyer |-> ts[i].isBuyer, qty |-> ts[i].qty,
                        price |-> ts[i].price, commission |-> 0, commissionAsset |-> BNB]]
    /\ symbol_trades = <<>> /\ trade_idx = 0
    /\ buy_queue = <<>> /\ remaining_sell_qty = 0
    /\ realized_pnl = 0 /\ matched_sell_qty = 0
    /\ total_buy_cost = 0 /\ total_sell_revenue = 0
    /\ commissions = <<>> /\ notes = <<>> /\ pnl_results = <<>>

SpecFifoOrder == InitFifoOrder /\ [][NextFifo]_vars

-----------------------------------------------------------------------------
(* RebalancePortfolio._calculate_ta_score (strategy TA)                    *)

\* A cell of the indicator table: a number, or NaN (no value).  The val of a
\* NaN cell is never meaningful; it is 0 so that reading it shows.
Num(v) == [isna |-> FALSE, val |-> v]
NaN == [isna |-> TRUE, val |-> 0]

\* pd.notna; the variant takes every cell for a number.
notna_nan_as_number(x) == TRUE

notna(x) == ~x.isna

\* Lines 123-129: RSI_14 < 30 adds 1, RSI_14 > 70 subtracts 1.  The variant
\* counts the limits themselves as oversold and overbought.
RsiTerm_inclusive(last_row) ==
    LET rsi == last_row.RSI_14
    IN  IF notna(rsi)
        THEN IF rsi.val <= 30 THEN 1 ELSE IF rsi.val >= 70 THEN -1 ELSE 0
        ELSE 0

RsiTerm(last_row) ==
    LET rsi == last_row.RSI_14
    IN  IF notna(rsi)
        THEN IF rsi.val < 30 THEN 1 ELSE IF rsi.val > 70 THEN -1 ELSE 0
        ELSE 0

\* Lines 131-156: a > b adds 1, a < b subtracts 1, when both are numbers.
CompareTerm(a, b) ==
    IF notna(a) /\ notna(b)
    THEN IF a.val > b.val THEN 1 ELSE IF a.val < b.val THEN -1 ELSE 0
    ELSE 0

_calculate_ta_score(last_row) ==
    RsiTerm(last_row)
    + CompareTerm(last_row.EMA_12, last_row.EMA_26)
    + CompareTerm(last_row.MACD, last_row.MACD_Signal)
    + CompareTerm(last_row.Close, last_row.EMA_200)

\* Lines 346-351 with use_ta2 false: the score of the last row.
CalculateTaScore ==
    /\ pc = "ta_call"
    /\ ta_score' = _calculate_ta_score(ta_df[Len(ta_df)])
    /\ pc' = "ta_done"
    /\ UNCHANGED <<cfg, taVars, rsiVars, pipeVars, execVars, current_value_usdc, percentage_change, signal_result,
                   selectVars, planVars, fifoVars>>

NextTa == CalculateTaScore

-----------------------------------------------------------------------------
(* Specification SpecTa: _calculate_ta_score on a drawn last row           *)

\* RSI values around the limits 30 and 70, and no value.
RsiCells == { NaN, Num(0), Num(25), Num(30), Num(50), Num(70), Num(75) }

\* Operands of the three comparisons, and no value.
PairCells == { NaN, Num(-1), Num(0), Num(1) }

InitTa ==
    /\ pc = "ta_call"
    /\ cfg = CHOOSE c \in Configs : c.take_profit_percentage = 1000
    /\ SignalIdle
    /\ SelectIdle
    /\ PipeIdle
    /\ ExecIdle
    /\ PlanIdle
    /\ FifoIdle
    /\ RsiIdle
    /\ \E rsi \in RsiCells :
         \E ema_12 \in PairCells, ema_26 \in PairCells, macd \in PairCells,
            macd_signal \in PairCells, close \in PairCells, ema_200 \in PairCells :
           ta_df = << [Close |-> close, EMA_12 |-> ema_12, EMA_21 |-> Num(0),
                       EMA_26 |-> ema_26, EMA_50 |-> Num(0), EMA_200 |-> ema_200,
                       MACD |-> macd, MACD_Signal |-> macd_signal, RSI_14 |-> rsi] >>

SpecTa == InitTa /\ [][NextTa]_vars

-----------------------------------------------------------------------------
(* RebalancePortfolio._calculate_ta2_signal (strategy TA2)                 *)

LOOKBACK == 8

\* get(row, col): None for a cell without a value.
IsNone(x) == x.isna

\* Variant: a window of the same length that ends at the entry candle.
rsi_lookback_to_entry_candle(df) ==
    [i \in 1..LOOKBACK |-> df[Len(df) - LOOKBACK + i].RSI_14]

\* ta_df["RSI_14"].iloc[-(LOOKBACK + 1):-1]: the RSI cells of rows t-8..t-1.
rsi_lookback(df) ==
    [i \in 1..LOOKBACK |-> df[Len(df) - LOOKBACK - 1 + i].RSI_14]

\* Variant: the minimum is taken over the cells that hold a value, as
\* Series.min alone does.
LookbackBlocks_skipna(df) ==
    LET w == rsi_lookback(df)
    IN  \A i \in 1..LOOKBACK : w[i].isna \/ w[i].val >= 45

\* Line 236: rsi_lookback.isna().any() or rsi_lookback.min() >= 45.  The
\* variant lets a minimum of exactly 45 pass.
LookbackBlocks_at_45(df) ==
    LET w == rsi_lookback(df)
    IN  \/ \E i \in 1..LOOKBACK : w[i].isna
        \/ \A i \in 1..LOOKBACK : w[i].val > 45

LookbackBlocks(df) ==
    LET w == rsi_lookback(df)
    IN  \/ \E i \in 1..LOOKBACK : w[i].isna
        \/ \A i \in 1..LOOKBACK : w[i].val >= 45

\* Lines 206-244: the entry rules, reached when the exit rule did not fire.
Ta2Entry(df, c, macd, macd_signal) ==
    LET last == df[Len(df)]
        prev == df[Len(df) - 1]
        close == last.Close
        ema_200 == last.EMA_200
        ema_21 == last.EMA_21
        rsi_t == last.RSI_14
        rsi_prev == prev.RSI_14
        ema_50 == last.EMA_50
    IN  IF IsNone(close) \/ IsNone(ema_200) \/ IsNone(ema_21) \/ IsNone(rsi_t) \/ IsNone(rsi_prev)
        THEN 0
        ELSE IF close.val <= ema_200.val THEN 0
        ELSE IF macd.val <= macd_signal.val THEN 0
        ELSE IF close.val <= ema_21.val THEN 0
        ELSE IF rsi_prev.val > 50 \/ rsi_t.val <= 50 THEN 0
        ELSE IF LookbackBlocks(df) THEN 0
        ELSE IF c.ta2_use_ema50_filter /\ (IsNone(ema_50) \/ ema_50.val <= ema_200.val) THEN 0
        ELSE 1

\* Variant: one more row of history is asked for.
_calculate_ta2_signal_short_history(df, c) ==
    IF Len(df) <= LOOKBACK + 1 THEN 0
    ELSE LET last == df[Len(df)]
             macd == last.MACD
             macd_signal == last.MACD_Signal
         IN  IF IsNone(macd) \/ IsNone(macd_signal) THEN 0
             ELSE IF macd.val < macd_signal.val THEN -1
             ELSE Ta2Entry(df, c, macd, macd_signal)

\* Variant: the fields of the entry rules are looked at before the exit rule.
_calculate_ta2_signal_entry_fields_first(df, c) ==
    IF Len(df) < LOOKBACK + 1 THEN 0
    ELSE LET last == df[Len(df)]
             macd == last.MACD
             macd_signal == last.MACD_Signal
         IN  IF IsNone(macd) \/ IsNone(macd_signal) THEN 0
             ELSE IF IsNone(last.Close) \/ IsNone(last.EMA_200) \/ IsNone(last.EMA_21) THEN 0
             ELSE IF macd.val < macd_signal.val THEN -1
             ELSE Ta2Entry(df, c, macd, macd_signal)

\* Lines 165-244: 1 (BUY), -1 (SELL) or 0 (HOLD).
_calculate_ta2_signal(df, c) ==
    IF Len(df) < LOOKBACK + 1 THEN 0
    ELSE LET last == df[Len(df)]
             macd == last.MACD
             macd_signal == last.MACD_Signal
         IN  IF IsNone(macd) \/ IsNone(macd_signal) THEN 0
             ELSE IF macd.val < macd_signal.val THEN -1
             ELSE Ta2Entry(df, c, macd, macd_signal)

\* Lines 346-349 with use_ta2 true: the signal of the table.
CalculateTa2Signal ==
    /\ pc = "ta2_call"
    /\ ta_score' = _calculate_ta2_signal(ta_df, cfg)
    /\ pc' = "ta2_done"
    /\ UNCHANGED <<cfg, taVars, rsiVars, pipeVars, execVars, current_value_usdc, percentage_change, signal_result,
                   selectVars, planVars, fifoVars>>

NextTa2 == CalculateTa2Signal

-----------------------------------------------------------------------------
(* Specification SpecTa2: _calculate_ta2_signal on a drawn indicator table *)

\* Shortest and longest table drawn: one row short of the lookback, and one
\* row more than it reads.
MinRows == LOOKBACK
MaxRows == 10

\* The configuration of the TA2 tests, with the EMA50 filter off or on.
Ta2Configs ==
    { [trade_threshold |-> Usdc(100), take_profit_percentage |-> 1000,
       stop_loss_percentage |-> 600, ta2_use_ema50_filter |-> f] : f \in BOOLEAN }

\* (MACD, MACD_Signal) of the latest row: missing, below, above, equal.
MacdPairs ==
    { <<NaN, Num(1)>>, <<Num(1), NaN>>, <<Num(1), Num(2)>>, <<Num(2), Num(1)>>,
      <<Num(1), Num(1)>> }

\* Close and the averages it is compared with.
CloseCells == { NaN, Num(2) }
EmaCells == { NaN, Num(1), Num(2) }

\* RSI_14 at t, at t-1, and what one earlier row may hold in place of 45.
RsiNowCells == { NaN, Num(50), Num(51) }
RsiPrevCells == { NaN, Num(44), Num(50), Num(51) }
RsiDipCells == { NaN, Num(44) }

\* A row before the latest one: only its RSI_14 is read.
HistoryRow(rsi) ==
    [Close |-> Num(2), EMA_12 |-> Num(0), EMA_21 |-> Num(1), EMA_26 |-> Num(0),
     EMA_50 |-> Num(2), EMA_200 |-> Num(1), MACD |-> Num(2), MACD_Signal |-> Num(1),
     RSI_14 |-> rsi]

InitTa2 ==
    /\ pc = "ta2_call"
    /\ cfg \in Ta2Configs
    /\ SignalIdle
    /\ SelectIdle
    /\ PipeIdle
    /\ ExecIdle
    /\ PlanIdle
    /\ FifoIdle
    /\ RsiIdle
    /\ \E n \in MinRows..MaxRows :
         \E m \in MacdPairs, close \in CloseCells, ema_200 \in EmaCells, ema_21 \in EmaCells,
            ema_50 \in EmaCells, rsi_t \in RsiNowCells, rsi_prev \in RsiPrevCells,
            k \in 0..(n - 2), dip \in RsiDipCells :
           ta_df = [i \in 1..n |->
                      IF i = n
                      THEN [Close |-> close, EMA_12 |-> Num(0), EMA_21 |-> ema_21,
                            EMA_26 |-> Num(0), EMA_50 |-> ema_50, EMA_200 |-> ema_200,
                            MACD |-> m[1], MACD_Signal |-> m[2], RSI_14 |-> rsi_t]
                      ELSE IF i = n - 1 THEN HistoryRow(rsi_prev)
                      ELSE IF i = k THEN HistoryRow(dip)
                      ELSE HistoryRow(Num(45))]

SpecTa2 == InitTa2 /\ [][NextTa2]_vars

-----------------------------------------------------------------------------
(* TechnicalAnalysis._calculate_rsi                                        *)
(*                                                                         *)
(* Prices are integers.  A rolling mean over period rows is kept as the    *)
(* sum of the window, i.e. it counts 1/period of a price unit, so that the *)
(* quotient gain / loss is exact.  RSI counts 0.01.                        *)

\* prices.diff(): no value on the first row, then p[i] - p[i-1].
diff(ps) ==
    [i \in 1..Len(ps) |-> IF i = 1 THEN NaN ELSE Num(ps[i] - ps[i - 1])]

\* delta.where(delta > 0, 0): a comparison with NaN is false, so the cell
\* without value becomes 0 as well.  The variant keeps it without value.
gains_keep_nan(delta) ==
    [i \in 1..Len(delta) |->
        IF delta[i].isna THEN NaN
        ELSE IF delta[i].val > 0 THEN delta[i] ELSE Num(0)]

gains(delta) ==
    [i \in 1..Len(delta) |->
        IF ~delta[i].isna /\ delta[i].val > 0 THEN delta[i] ELSE Num(0)]

\* -delta.where(delta < 0, 0)
losses(delta) ==
    [i \in 1..Len(delta) |->
        IF ~delta[i].isna /\ delta[i].val < 0 THEN Num(-delta[i].val) ELSE Num(0)]

RECURSIVE WindowSum(_, _, _)
WindowSum(series, from, to) ==
    IF from > to THEN 0 ELSE series[from].val + WindowSum(series, from + 1, to)

\* Series.rolling(window=period).mean(): a value once the window holds period
\* cells that all have a value.
rolling_mean(series, period) ==
    [i \in 1..Len(series) |->
        IF i >= period /\ \A j \in (i - period + 1)..i : ~series[j].isna
        THEN Num(WindowSum(series, i - period + 1, i))
        ELSE NaN]

\* Float division of two cells: x / 0 is inf for x > 0 and NaN for x = 0.
FloatDiv(a, b) ==
    IF a.isna \/ b.isna THEN [kind |-> "nan", num |-> 0, den |-> 1]
    ELSE IF b.val = 0
         THEN IF a.val = 0 THEN [kind |-> "nan", num |-> 0, den |-> 1]
              ELSE [kind |-> "inf", num |-> 1, den |-> 0]
         ELSE [kind |-> "finite", num |-> a.val, den |-> b.val]

\* 100 - (100 / (1 + rs)), in 0.01, rounded to the nearest.
RsiOf(rs) ==
    IF rs.kind = "nan" THEN NaN
    ELSE IF rs.kind = "inf" THEN Num(10000)
    ELSE Num((2 * 10000 * rs.num + (rs.num + rs.den)) \div (2 * (rs.num + rs.den)))

\* period=14 of the RSI_14 column.
RsiPeriod == 14

\* Lines 64-81.
_calculate_rsi(ps, period) ==
    LET delta == diff(ps)
        gain == rolling_mean(gains(delta), period)
        loss == rolling_mean(losses(delta), period)
    IN  [i \in 1..Len(ps) |-> RsiOf(FloatDiv(gain[i], loss[i]))]

\* Line 146: result_df["RSI_14"] = self._calculate_rsi(df["Close"], period=14)
CalculateRsi ==
    /\ pc = "rsi_call"
    /\ rsi_14' = _calculate_rsi(prices, RsiPeriod)
    /\ pc' = "rsi_done"
    /\ UNCHANGED <<cfg, taVars, pipeVars, execVars, prices, signalVars, selectVars, planVars, fifoVars>>

NextRsi == CalculateRsi

-----------------------------------------------------------------------------
(* Specification SpecRsi: _calculate_rsi on a drawn close series           *)

\* Shortest and longest close series drawn.
MinCloses == RsiPeriod - 1
MaxCloses == 16

\* Steps between consecutive closes.
CloseSteps == { -1, 0, 1 }

\* The close series that starts at first and moves by steps.
RECURSIVE ClosesFrom(_, _)
ClosesFrom(first, steps) ==
    IF steps = <<>> THEN <<first>>
    ELSE <<first>> \o ClosesFrom(first + Head(steps), Tail(steps))

\* Series of one repeated step, with up to two rows stepping otherwise.
InitRsi ==
    /\ pc = "rsi_call"
    /\ cfg = CHOOSE c \in Configs : c.take_profit_percentage = 1000
    /\ SignalIdle
    /\ SelectIdle
    /\ PipeIdle
    /\ ExecIdle
    /\ PlanIdle
    /\ FifoIdle
    /\ TaIdle
    /\ \E n \in MinCloses..MaxCloses :
         \E base \in CloseSteps, s1 \in CloseSteps, s2 \in CloseSteps,
            k1 \in 1..(n - 1), k2 \in 1..(n - 1) :
           prices = ClosesFrom(100,
                      [i \in 1..(n - 1) |->
                         IF i = k1 THEN s1 ELSE IF i = k2 THEN s2 ELSE base])
    /\ rsi_14 = <<>>

SpecRsi == InitRsi /\ [][NextRsi]_vars

-----------------------------------------------------------------------------
(* RebalancePortfolio.generate_recommendations and RebalancePortfolio.run  *)
(* (strategy TA)                                                           *)

\* Longest list of configured currencies.
MaxPipeCurrencies == 3

\* Lines 320-370: the loop over cfg.currencies.  A currency without a row in
\* the portfolio summary, or whose TA file is missing or empty
\* (_read_ta_data returns None), is passed over with continue.  The variant
\* leaves the loop at the first such currency.
RECURSIVE RecommendationsOf_break(_, _, _, _)
RecommendationsOf_break(currencies, c, portfolio, ta) ==
    IF currencies = <<>> THEN <<>>
    ELSE LET currency == Head(currencies)
             portfolio_row == portfolio[currency]
             df == ta[currency]
         IN  IF ~portfolio_row.present THEN <<>>
             ELSE IF df = <<>> THEN <<>>
             ELSE LET score == _calculate_ta_score(df[Len(df)])
                      sp == _generate_signal(c, score, portfolio_row.current_value_usdc,
                                             portfolio_row.percentage_change)
                  IN  <<Recommendation(currency, score, sp)>>
                        \o RecommendationsOf_break(Tail(currencies), c, portfolio, ta)

RECURSIVE RecommendationsOf(_, _, _, _)
RecommendationsOf(currencies, c, portfolio, ta) ==
    IF currencies = <<>> THEN <<>>
    ELSE LET currency == Head(currencies)
             portfolio_row == portfolio[currency]
             df == ta[currency]
             rest == RecommendationsOf(Tail(currencies), c, portfolio, ta)
         IN  IF ~portfolio_row.present THEN rest
             ELSE IF df = <<>> THEN rest
             ELSE LET score == _calculate_ta_score(df[Len(df)])
                      sp == _generate_signal(c, score, portfolio_row.current_value_usdc,
                                             portfolio_row.percentage_change)
                  IN  <<Recommendation(currency, score, sp)>> \o rest

generate_recommendations_break_on_missing(c, portfolio, ta) ==
    RecommendationsOf_break(c.currencies, c, portfolio, ta)

generate_recommendations(c, portfolio, ta) ==
    RecommendationsOf(c.currencies, c, portfolio, ta)

\* Lines 410-454: the rows written to recommendations.csv, without the
\* internal fields priority and abs_ta_score.
save_recommendations(recs) ==
    [i \in DOMAIN recs |->
       [currency |-> recs[i].currency, ta_score |-> recs[i].ta_score,
        signal |-> recs[i].signal]]

\* RebalancePortfolio.run: generate, select, save.
RunRebalance ==
    /\ pc = "pipe_call"
    /\ LET all_recommendations == generate_recommendations(cfg, portfolio_df, ta_files)
           final == IF all_recommendations = <<>> THEN <<>>
                    ELSE _select_final_recommendations(all_recommendations)
       IN  /\ recommendations' = all_recommendations
           /\ final_recommendations' = final
           /\ recommendations_df' = save_recommendations(final)
    /\ pc' = "plan_call"
    /\ UNCHANGED <<cfg, taVars, rsiVars, pipeVars, execVars, signalVars, fifoVars,
                   portfolio_df, sell_recommendations, sell_idx, trade_plan, liquid_funds>>

\* main run a second time on the same data area: the inputs are as they were,
\* every output file of the first run is still in place.
Rerun ==
    /\ pc = "plan_done"
    /\ run = 1
    /\ run' = 2
    /\ first_run' = [recommendations |-> recommendations,
                     final_recommendations |-> final_recommendations,
                     recommendations_df |-> recommendations_df,
                     trade_plan |-> trade_plan]
    /\ pc' = "pipe_call"
    /\ UNCHANGED <<cfg, taVars, rsiVars, execVars, ta_files, signalVars, selectVars,
                   planVars, fifoVars>>

NextPipeline == RunRebalance \/ StartTradePlan \/ ProcessSell \/ ProcessBuy \/ Rerun

-----------------------------------------------------------------------------
(* Specification SpecPipeline: rebalance and trade plan, run twice on one  *)
(* drawn data area                                                         *)

PipeCurrencies == SubSeq(CurrencyNames, 1, MaxPipeCurrencies)

\* Rows of portfolio.csv for a traded currency: a small holding in profit
\* beyond take-profit, a small holding at its cost, a large holding beyond
\* stop-loss, a large holding in profit.  The cells are numbers.
PipeRows ==
    { [present |-> TRUE, balance |-> 1000, current_value_usdc |-> Usdc(50) + 2,
       percentage_change |-> 1200],
      [present |-> TRUE, balance |-> 1000, current_value_usdc |-> Usdc(50) + 2,
       percentage_change |-> 0],
      [present |-> TRUE, balance |-> 5000, current_value_usdc |-> Usdc(250) + 2,
       percentage_change |-> -700],
      [present |-> TRUE, balance |-> 5000, current_value_usdc |-> Usdc(250) + 2,
       percentage_change |-> 1200] }

\* An indicator row in which only RSI_14 has a value.
TaRow(rsi) ==
    [Close |-> NaN, EMA_12 |-> NaN, EMA_21 |-> NaN, EMA_26 |-> NaN, EMA_50 |-> NaN,
     EMA_200 |-> NaN, MACD |-> NaN, MACD_Signal |-> NaN, RSI_14 |-> rsi]

\* TA files: missing or empty, ending oversold (score 1), ending overbought
\* (score -1).
TaFiles ==
    { <<>>, <<TaRow(Num(50)), TaRow(Num(25))>>, <<TaRow(Num(50)), TaRow(Num(75))>> }

InitPipeline ==
    /\ pc = "pipe_call"
    /\ cfg = [trade_threshold |-> Usdc(100), take_profit_percentage |-> 1000,
              stop_loss_percentage |-> 600, currencies |-> PipeCurrencies]
    /\ TaIdle
    /\ RsiIdle
    /\ SignalIdle
    /\ SelectIdle
    /\ FifoIdle
    /\ ExecIdle
    /\ \E rows \in [1..MaxPipeCurrencies -> PipeRows \cup {NoRow}] :
         \E usdc \in {r \in UsdcRows : r.current_value_usdc # Usdc(100)} :
           portfolio_df = [c \in {PipeCurrencies[i] : i \in 1..MaxPipeCurrencies} \cup {"USDC"} |->
                             IF c = "USDC" THEN usdc
                             ELSE rows[CHOOSE i \in 1..MaxPipeCurrencies : PipeCurrencies[i] = c]]
    /\ \E files \in [1..MaxPipeCurrencies -> TaFiles] :
         ta_files = [c \in {PipeCurrencies[i] : i \in 1..MaxPipeCurrencies} |->
                       files[CHOOSE i \in 1..MaxPipeCurrencies : PipeCurrencies[i] = c]]
    /\ recommendations_df = <<>>
    /\ sell_recommendations = <<>>
    /\ sell_idx = 0
    /\ trade_plan = <<>>
    /\ liquid_funds = 0
    /\ run = 1
    /\ first_run = <<>>

SpecPipeline == InitPipeline /\ [][NextPipeline]_vars

-----------------------------------------------------------------------------
(* ExecuteTradePlan.run (hunk2/src/execute_trade_plan.py)                  *)

\* Longest trade plan drawn for execution.
MaxExecTrades == 2

NoPlanFile == [exists |-> FALSE, rows |-> <<>>]
PlanFile(rows) == [exists |-> TRUE, rows |-> rows]

\* A call on the ccxt exchange object.
ExchangeCall(name, sym) == [call |-> name, symbol |-> sym]

\* _init_broker: a broker is made in live mode when there is none yet.
_init_broker(c, b) == IF ~c.dry_run /\ b = "None" THEN "CCXTBroker" ELSE b

\* What fetch_markets can answer: a list of markets, an empty list, an
\* exception.
ExchangeInfos == {"markets", "empty", "raises"}

\* Lines 151-177, called first by execute_trades (lines 277-280).
ValidateExchangeInfo ==
    /\ pc = "exec_call"
    /\ IF cfg.dry_run
       THEN /\ pc' = "exec_read"
            /\ UNCHANGED <<broker, calls, run_result>>
       ELSE /\ broker' = _init_broker(cfg, broker)
            /\ calls' = Append(calls, ExchangeCall("fetch_markets", ""))
            /\ \E exchange_info \in ExchangeInfos :
                 IF exchange_info = "markets"
                 THEN pc' = "exec_read" /\ UNCHANGED run_result
                 ELSE pc' = "exec_done" /\ run_result' = "False"
    /\ UNCHANGED <<cfg, taVars, rsiVars, pipeVars, signalVars, selectVars, planVars, fifoVars,
                   plan_file, exec_idx, success_count, failure_count>>

\* Lines 282-294: read the plan; a missing file fails, an empty plan succeeds,
\* otherwise the broker is made ready for the loop.
ReadTradePlan ==
    /\ pc = "exec_read"
    /\ IF ~plan_file.exists
       THEN /\ run_result' = "False" /\ pc' = "exec_done"
            /\ UNCHANGED <<broker, exec_idx>>
       ELSE IF plan_file.rows = <<>>
            THEN /\ run_result' = "True" /\ pc' = "exec_done"
                 /\ UNCHANGED <<broker, exec_idx>>
            ELSE /\ broker' = _init_broker(cfg, broker)
                 /\ exec_idx' = 1
                 /\ pc' = "exec_loop"
                 /\ UNCHANGED run_result
    /\ UNCHANGED <<cfg, taVars, rsiVars, pipeVars, signalVars, selectVars, planVars, fifoVars,
                   plan_file, calls, success_count, failure_count>>

\* What the exchange can do with one order: take it, fail on the ticker,
\* fail on the order.
OrderOutcomes == {"ok", "ticker_raises", "order_raises"}

\* Lines 220-266 with CCXTBroker.market_buy / market_sell (lines 86-131): the
\* calls one live trade makes, given what the exchange does.
LiveCalls(trade, outcome) ==
    LET sym == trade.currency \o "/USDC"
        order == IF trade.action = "BUY" THEN "create_market_buy_order"
                 ELSE "create_market_sell_order"
    IN  IF trade.action \notin {"BUY", "SELL"} THEN <<>>
        ELSE IF outcome = "ticker_raises" THEN <<ExchangeCall("fetch_ticker", sym)>>
        ELSE <<ExchangeCall("fetch_ticker", sym), ExchangeCall(order, sym)>>

\* _execute_trade_live's return value.
LiveSuccess(trade, outcome) == trade.action \in {"BUY", "SELL"} /\ outcome = "ok"

\* Lines 300-310: one iteration of the loop over the trades.
ExecuteTrade ==
    /\ pc = "exec_loop"
    /\ exec_idx <= Len(plan_file.rows)
    /\ LET trade == plan_file.rows[exec_idx]
       IN  IF cfg.dry_run
           THEN /\ success_count' = success_count + 1
                /\ UNCHANGED <<calls, failure_count>>
           ELSE \E outcome \in OrderOutcomes :
                  /\ calls' = calls \o LiveCalls(trade, outcome)
                  /\ IF LiveSuccess(trade, outcome)
                     THEN success_count' = success_count + 1 /\ UNCHANGED failure_count
                     ELSE failure_count' = failure_count + 1 /\ UNCHANGED success_count
    /\ exec_idx' = exec_idx + 1
    /\ UNCHANGED <<pc, cfg, taVars, rsiVars, pipeVars, signalVars, selectVars, planVars, fifoVars,
                   plan_file, broker, run_result>>

\* Lines 312-318: the result after the loop.
FinishTrades ==
    /\ pc = "exec_loop"
    /\ exec_idx > Len(plan_file.rows)
    /\ run_result' = IF failure_count > 0 THEN "False" ELSE "True"
    /\ pc' = "exec_done"
    /\ UNCHANGED <<cfg, taVars, rsiVars, pipeVars, signalVars, selectVars, planVars, fifoVars,
                   plan_file, broker, calls, exec_idx, success_count, failure_count>>

NextExecute == ValidateExchangeInfo \/ ReadTradePlan \/ ExecuteTrade \/ FinishTrades

-----------------------------------------------------------------------------
(* Specification SpecExecute: ExecuteTradePlan.run on a drawn trade plan,  *)
(* in dry-run and in live mode                                             *)

\* Rows of trade_plan.csv: a BUY, a SELL, a row with another action.
ExecTrades ==
    { [action |-> "BUY", currency |-> "BTC", amount |-> AllAmount, value_usdc |-> Usdc(150)],
      [action |-> "SELL", currency |-> "ETH", amount |-> QtyAmount(5000),
       value_usdc |-> Usdc(250)],
      [action |-> "HOLD", currency |-> "SOL", amount |-> QtyAmount(1000),
       value_usdc |-> Usdc(50)] }

InitExecute ==
    /\ pc = "exec_call"
    /\ \E dry_run \in BOOLEAN : cfg = [dry_run |-> dry_run]
    /\ TaIdle
    /\ RsiIdle
    /\ SignalIdle
    /\ SelectIdle
    /\ PlanIdle
    /\ FifoIdle
    /\ PipeIdle
    /\ \/ plan_file = NoPlanFile
       \/ \E n \in 0..MaxExecTrades : \E rows \in [1..n -> ExecTrades] :
            plan_file = PlanFile(rows)
    /\ broker = "None"
    /\ calls = <<>>
    /\ exec_idx = 0
    /\ success_count = 0
    /\ failure_count = 0
    /\ run_result = "None"

SpecExecute == InitExecute /\ [][NextExecute]_vars

-----------------------------------------------------------------------------
(* Properties of _generate_signal (specification SpecSignal)               *)

SignalDone == pc = "signal_done"

\* The conditions of the override rules as the specification words them.
TakeProfitCond ==
    current_value_usdc < cfg.trade_threshold /\ percentage_change > cfg.take_profit_percentage
StopLossCond ==
    current_value_usdc >= cfg.trade_threshold /\ percentage_change < -cfg.stop_loss_percentage
SmallHoldingGuardCond ==
    current_value_usdc < cfg.trade_threshold /\ ta_score <= -1

\* C1: for every raw score, current_value < trade_threshold and
\* percentage_change > take_profit_pct give (SELL, priority 1), and priority 1
\* is returned in no other case.
C1_TakeProfit ==
    SignalDone =>
        /\ TakeProfitCond => signal_result = [signal |-> "SELL", priority |-> 1]
        /\ signal_result.priority = 1 => TakeProfitCond

\* A raw BUY on a small holding in profit was turned into (SELL, 1).
C1_Witness ==
    /\ SignalDone /\ TakeProfitCond /\ ta_score >= 1
    /\ signal_result = [signal |-> "SELL", priority |-> 1]

\* C2: for every raw score, current_value >= trade_threshold and
\* percentage_change < -stop_loss_pct give (SELL, priority 2); a change exactly
\* equal to -stop_loss_pct does not trigger the stop-loss.
C2_StopLoss ==
    SignalDone =>
        /\ StopLossCond => signal_result = [signal |-> "SELL", priority |-> 2]
        /\ percentage_change = -cfg.stop_loss_percentage => signal_result.priority # 2

\* A raw BUY on a large holding in loss was turned into (SELL, 2).
C2_Witness ==
    /\ SignalDone /\ StopLossCond /\ ta_score >= 1
    /\ signal_result = [signal |-> "SELL", priority |-> 2]

C4_StopLossSmallHoldings ==
    (/\ SignalDone
     /\ current_value_usdc < cfg.trade_threshold
     /\ percentage_change < -cfg.stop_loss_percentage
     /\ ~(percentage_change > cfg.take_profit_percentage))
        => signal_result = [signal |-> "SELL", priority |-> 2]

-----------------------------------------------------------------------------
(* Properties of _select_final_recommendations (specification SpecSelect)  *)

SelectDone == pc = "select_done"

\* Position of a currency's recommendation in the input batch.
InputPos(currency) ==
    CHOOSE i \in 1..Len(recommendations) : recommendations[i].currency = currency

\* C6: the result is exactly the non-HOLD recommendations, each once (every BUY
\* and every SELL kept, no cap on BUYs), ordered by priority ascending, then
\* absolute score descending, and in input order among entries equal on both.
C6_Ranking ==
    SelectDone =>
        LET out == final_recommendations
            kept == { i \in 1..Len(recommendations) : recommendations[i].signal # "HOLD" }
        IN  /\ Len(out) = Cardinality(kept)
            /\ \A i \in kept : \E j \in 1..Len(out) : out[j] = recommendations[i]
            /\ \A j \in 1..Len(out) : \E i \in kept : out[j] = recommendations[i]
            /\ \A j, k \in 1..Len(out) :
                 j < k =>
                   \/ out[j].priority < out[k].priority
                   \/ /\ out[j].priority = out[k].priority
                      /\ out[j].abs_ta_score > out[k].abs_ta_score
                   \/ /\ out[j].priority = out[k].priority
                      /\ out[j].abs_ta_score = out[k].abs_ta_score
                      /\ InputPos(out[j].currency) < InputPos(out[k].currency)

\* A batch with a HOLD, two kept BUYs, a tie on both keys, and an entry that the
\* sort moved ahead of an earlier one.
C6_Witness ==
    /\ SelectDone
    /\ \E i \in 1..Len(recommendations) : recommendations[i].signal = "HOLD"
    /\ Cardinality({ j \in 1..Len(final_recommendations) :
                       final_recommendations[j].signal = "BUY" }) >= 2
    /\ \E j, k \in 1..Len(final_recommendations) :
         /\ j < k
         /\ final_recommendations[j].priority = final_recommendations[k].priority
         /\ final_recommendations[j].abs_ta_score = final_recommendations[k].abs_ta_score
    /\ \E j, k \in 1..Len(final_recommendations) :
         /\ j < k
         /\ InputPos(final_recommendations[j].currency)
              > InputPos(final_recommendations[k].currency)

-----------------------------------------------------------------------------
(* Properties of generate_trade_plan (specification SpecPlan)              *)

PlanDone == pc = "plan_done"

\* Rank of a currency: the position of its row in recommendations.csv.
RankPos(currency) ==
    CHOOSE i \in 1..Len(recommendations_df) : recommendations_df[i].currency = currency

PlanIndices(action) == { i \in 1..Len(trade_plan) : trade_plan[i].action = action }

\* C7: in every plan produced every SELL entry precedes every BUY entry and
\* there is at most one BUY entry, also when the batch holds several BUY
\* recommendations; the SELL entries appear in the rank order of their
\* recommendations.
C7_PlanSequencing ==
    /\ \A i \in PlanIndices("SELL"), j \in PlanIndices("BUY") : i < j
    /\ Cardinality(PlanIndices("BUY")) <= 1
    /\ \A i, j \in PlanIndices("SELL") :
         i < j => RankPos(trade_plan[i].currency) < RankPos(trade_plan[j].currency)

\* A finished plan with two SELL entries and one BUY entry, built from a batch
\* holding at least two BUY recommendations.
C7_Witness ==
    /\ PlanDone
    /\ Cardinality({ i \in 1..Len(recommendations_df) : recommendations_df[i].signal = "BUY" }) >= 2
    /\ Cardinality(PlanIndices("SELL")) >= 2
    /\ Cardinality(PlanIndices("BUY")) = 1

\* The SELL row the loop is about to process, and its portfolio row.
SellStepEnabled == pc = "plan_sells" /\ sell_idx <= Len(sell_recommendations)
SellStepRow == portfolio_df[sell_recommendations[sell_idx].currency]
SellStepEntry ==
    [action |-> "SELL", currency |-> sell_recommendations[sell_idx].currency,
     amount |-> [kind |-> "QTY", qty |-> SellStepRow.balance],
     value_usdc |-> Format2(SellStepRow.current_value_usdc)]

\* C8 as stated: each SELL recommendation, in rank order, emits a SELL entry for
\* the full held balance and adds the position's current_value to liquid_funds
\* if and only if the position is in the portfolio and its current_value >=
\* trade_threshold; otherwise nothing is emitted and liquid_funds is unchanged.
C8_SellStepInclusive ==
    [][ SellStepEnabled =>
          IF SellStepRow.present /\ SellStepRow.current_value_usdc >= cfg.trade_threshold
          THEN /\ trade_plan' = Append(trade_plan, SellStepEntry)
               /\ liquid_funds' = liquid_funds + SellStepRow.current_value_usdc
          ELSE /\ trade_plan' = trade_plan
               /\ liquid_funds' = liquid_funds ]_vars

\* C8 amended: the same with current_value > trade_threshold (a position worth
\* exactly the threshold is skipped).
C8_SellStepStrict ==
    [][ SellStepEnabled =>
          IF SellStepRow.present /\ SellStepRow.current_value_usdc > cfg.trade_threshold
          THEN /\ trade_plan' = Append(trade_plan, SellStepEntry)
               /\ liquid_funds' = liquid_funds + SellStepRow.current_value_usdc
          ELSE /\ trade_plan' = trade_plan
               /\ liquid_funds' = liquid_funds ]_vars

\* A finished plan in which one SELL recommendation was executed, one was
\* skipped for a position worth exactly the threshold, and one was skipped for
\* a currency missing from the portfolio.
C8_Witness ==
    /\ PlanDone
    /\ PlanIndices("SELL") # {}
    /\ \E i \in 1..Len(sell_recommendations) :
         /\ portfolio_df[sell_recommendations[i].currency].present
         /\ portfolio_df[sell_recommendations[i].currency].current_value_usdc = cfg.trade_threshold
         /\ \A j \in PlanIndices("SELL") :
              trade_plan[j].currency # sell_recommendations[i].currency
    /\ \E i \in 1..Len(sell_recommendations) :
         ~portfolio_df[sell_recommendations[i].currency].present

\* Sums over the SELL entries of the plan.
RECURSIVE SumEntryValues(_)
SumEntryValues(plan) ==
    IF plan = <<>> THEN 0
    ELSE (IF Head(plan).action = "SELL" THEN Head(plan).value_usdc ELSE 0)
         + SumEntryValues(Tail(plan))

RECURSIVE SumSoldPositions(_)
SumSoldPositions(plan) ==
    IF plan = <<>> THEN 0
    ELSE (IF Head(plan).action = "SELL"
          THEN portfolio_df[Head(plan).currency].current_value_usdc ELSE 0)
         + SumSoldPositions(Tail(plan))

InitialLiquid ==
    IF portfolio_df["USDC"].present THEN portfolio_df["USDC"].current_value_usdc ELSE 0

BuyRows == { i \in 1..Len(recommendations_df) : recommendations_df[i].signal = "BUY" }

\* What C9 says about when a BUY entry exists and which one it is.
BuyEntryShape ==
    /\ (PlanIndices("BUY") # {}) <=> (liquid_funds > cfg.trade_threshold /\ BuyRows # {})
    /\ \A j \in PlanIndices("BUY") :
         /\ \E i \in BuyRows :
              /\ \A k \in BuyRows : i <= k
              /\ trade_plan[j].currency = recommendations_df[i].currency
         /\ trade_plan[j].amount.kind = "ALL"

\* C9 as stated: a BUY entry is emitted iff after all SELLs liquid_funds >
\* trade_threshold and the batch has a BUY recommendation; it is for the first
\* BUY in rank order, has amount ALL, and its value equals the initial value of
\* the liquid asset (0 when absent) plus the sum of the values of the SELL
\* entries emitted.
C9_BuyValueIsSumOfEntries ==
    PlanDone =>
        /\ BuyEntryShape
        /\ \A j \in PlanIndices("BUY") :
             trade_plan[j].value_usdc = InitialLiquid + SumEntryValues(trade_plan)

\* C9 amended: the value of the BUY entry is the two-decimal rendering of
\* liquid_funds, the initial value of the liquid asset (0 when absent) plus the
\* sum of the current values of the positions sold.
C9_BuyValueIsRenderedFunds ==
    PlanDone =>
        /\ BuyEntryShape
        /\ liquid_funds = InitialLiquid + SumSoldPositions(trade_plan)
        /\ \A j \in PlanIndices("BUY") :
             trade_plan[j].value_usdc = Format2(liquid_funds)

\* A finished plan with SELL entries and a BUY entry, drawn from a batch with
\* two BUY recommendations, whose BUY value differs from the sum of the initial
\* liquid value and the rendered SELL values.
C9_Witness ==
    /\ PlanDone
    /\ Cardinality(BuyRows) >= 2
    /\ PlanIndices("SELL") # {}
    /\ \E j \in PlanIndices("BUY") :
         trade_plan[j].value_usdc # InitialLiquid + SumEntryValues(trade_plan)

-----------------------------------------------------------------------------
(* Properties of _generate_realized_pnl_fifo (specification SpecFifo)      *)

FifoDone == pc = "fifo_done"

Min(a, b) == IF a <= b THEN a ELSE b

\* buy 1 @ 50000, buy 1 @ 52000, sell 1.5 @ 55000 (quantities in half units).
ExampleLedger ==
    /\ Len(symbol_trades) = 3
    /\ symbol_trades[1].isBuyer /\ symbol_trades[1].qty = 2 /\ symbol_trades[1].price = 50000
    /\ symbol_trades[2].isBuyer /\ symbol_trades[2].qty = 2 /\ symbol_trades[2].price = 52000
    /\ ~symbol_trades[3].isBuyer /\ symbol_trades[3].qty = 3 /\ symbol_trades[3].price = 55000

\* C10: a buy goes to the tail of the queue and a sell consumes the open lots
\* from the head; each step matches min(head lot remaining, remaining sell
\* quantity), adds matched x (sell price - lot price) to realized PnL, and
\* removes the head lot exactly when it is fully consumed.  For buy 1@50000,
\* buy 1@52000, sell 1.5@55000 the gross PnL is 6500 (13000 half quote units),
\* matched_sell_qty is 1.5 and one lot of 0.5@52000 remains.
C10_FifoMatching ==
    [][ /\ (pc = "fifo_loop" /\ trade_idx <= Len(symbol_trades)
              /\ symbol_trades[trade_idx].isBuyer)
           => /\ Len(buy_queue') = Len(buy_queue) + 1
              /\ SubSeq(buy_queue', 1, Len(buy_queue)) = buy_queue
              /\ buy_queue'[Len(buy_queue')].qty = symbol_trades[trade_idx].qty
              /\ buy_queue'[Len(buy_queue')].price = symbol_trades[trade_idx].price
        /\ (pc = "fifo_match" /\ remaining_sell_qty > 0 /\ buy_queue # <<>>)
           => LET head == buy_queue[1]
                  matched == Min(head.qty, remaining_sell_qty)
                  sell_price == symbol_trades[trade_idx].price
              IN  /\ realized_pnl' = realized_pnl + matched * (sell_price - head.price)
                  /\ matched_sell_qty' = matched_sell_qty + matched
                  /\ remaining_sell_qty' = remaining_sell_qty - matched
                  /\ IF matched = head.qty
                     THEN buy_queue' = Tail(buy_queue)
                     ELSE /\ Len(buy_queue') = Len(buy_queue)
                          /\ buy_queue'[1] = [qty |-> head.qty - matched, price |-> head.price]
                          /\ Tail(buy_queue') = Tail(buy_queue)
        /\ (ExampleLedger' /\ pc' = "fifo_done")
           => /\ realized_pnl' = 13000
              /\ matched_sell_qty' = 3
              /\ buy_queue' = << [qty |-> 1, price |-> 52000] >>
      ]_vars

\* The example ledger was processed to the end: the sell consumed the first lot
\* whole and half of the second.
C10_Witness ==
    /\ FifoDone /\ ExampleLedger
    /\ realized_pnl = 13000 /\ matched_sell_qty = 3
    /\ buy_queue = << [qty |-> 1, price |-> 52000] >>

\* Quantity open after the first k trades of the sorted ledger: a buy adds its
\* quantity, a sell takes what is open and no more.
RECURSIVE OpenQtyAfter(_)
OpenQtyAfter(k) ==
    IF k = 0 THEN 0
    ELSE IF symbol_trades[k].isBuyer
         THEN OpenQtyAfter(k - 1) + symbol_trades[k].qty
         ELSE OpenQtyAfter(k - 1) - Min(OpenQtyAfter(k - 1), symbol_trades[k].qty)

\* Quantity matched by the sells among the first k trades.
RECURSIVE MatchedQtyAfter(_)
MatchedQtyAfter(k) ==
    IF k = 0 THEN 0
    ELSE MatchedQtyAfter(k - 1)
         + (IF symbol_trades[k].isBuyer THEN 0
            ELSE Min(OpenQtyAfter(k - 1), symbol_trades[k].qty))

\* The matching loop of the sell at trade_idx has ended.
SellLoopEnded == pc = "fifo_match" /\ ~(remaining_sell_qty > 0 /\ buy_queue # <<>>)

NotesOfKind(ns, kind) == { i \in 1..Len(ns) : ns[i].kind = kind }

\* C11: when a sell exceeds the open quantity only the open quantity is
\* matched, an 'Unmatched sell' note records exactly the leftover, the leftover
\* adds nothing to realized PnL, matched_sell_qty or the totals behind the
\* average prices, and every lot in the queue has a positive quantity and the
\* price of a buy of the ledger.
C11_UnmatchedSell ==
    [][ /\ SellLoopEnded =>
             LET sell_qty == symbol_trades[trade_idx].qty
                 open_qty == OpenQtyAfter(trade_idx - 1)
             IN  /\ matched_sell_qty = MatchedQtyAfter(trade_idx - 1) + Min(open_qty, sell_qty)
                 /\ IF sell_qty > open_qty
                    THEN /\ remaining_sell_qty = sell_qty - open_qty
                         /\ notes' = Append(notes, Note("Unmatched sell", sell_qty - open_qty, <<>>))
                    ELSE /\ remaining_sell_qty = 0
                         /\ notes' = notes
                 /\ realized_pnl' = realized_pnl
                 /\ matched_sell_qty' = matched_sell_qty
                 /\ total_buy_cost' = total_buy_cost
                 /\ total_sell_revenue' = total_sell_revenue
                 /\ buy_queue' = buy_queue
        /\ \A i \in 1..Len(buy_queue') :
             /\ buy_queue'[i].qty > 0
             /\ \E k \in 1..Len(symbol_trades') :
                  /\ symbol_trades'[k].isBuyer
                  /\ symbol_trades'[k].price = buy_queue'[i].price
                  /\ symbol_trades'[k].qty >= buy_queue'[i].qty
      ]_vars

\* A sell larger than the open quantity was matched in part and its leftover
\* noted: buy 1, sell 1.5 leaves 'Unmatched sell: 0.5'.
C11_Witness ==
    /\ FifoDone
    /\ matched_sell_qty = 2
    /\ \E i \in NotesOfKind(notes, "Unmatched sell") : notes[i].qty = 1
    /\ buy_queue = <<>>

\* C12: after the whole ledger is processed the result carries an 'Unmatched
\* buy' note if and only if lots remain in the queue, its quantity is the sum
\* of the remaining quantities of those lots, and the realized PnL is that of
\* the matched quantities alone.
C12_UnmatchedBuy ==
    [][ (pc = "fifo_loop" /\ pc' = "fifo_done") =>
          LET row == pnl_results'[Len(pnl_results')]
              open == NotesOfKind(row.notes, "Unmatched buy")
          IN  /\ (open # {}) <=> (buy_queue # <<>>)
              /\ Cardinality(open) <= 1
              /\ \A i \in open :
                   /\ row.notes[i].qty = SumQty(buy_queue)
                   /\ row.notes[i].qty = OpenQtyAfter(Len(symbol_trades))
              /\ realized_pnl' = realized_pnl
              /\ row.realized_pnl_quote = total_sell_revenue - total_buy_cost
              /\ row.matched_sell_qty = MatchedQtyAfter(Len(symbol_trades))
      ]_vars

\* Two lots stayed open, the first one partly consumed: the note carries the
\* sum of what is left of both.
C12_Witness ==
    /\ FifoDone
    /\ Len(buy_queue) = 2
    /\ matched_sell_qty > 0
    /\ \E i \in NotesOfKind(notes, "Unmatched buy") :
         notes[i].qty = buy_queue[1].qty + buy_queue[2].qty

\* The result row of the symbol.
ResultRow == pnl_results[Len(pnl_results)]

\* Average prices count 0.001 quote units, totals half quote units and
\* quantities half units: avg x qty and total x 1000 are in the same unit.

\* C16 as stated: avg_buy_price x matched_sell_qty equals the total cost of the
\* matched lot quantities and avg_sell_price x matched_sell_qty the total
\* revenue of the matched sell quantities; both averages are 0 when
\* matched_sell_qty is 0.
C16_AveragesExact ==
    FifoDone =>
        /\ ResultRow.avg_buy_price * matched_sell_qty = total_buy_cost * 1000
        /\ ResultRow.avg_sell_price * matched_sell_qty = total_sell_revenue * 1000
        /\ matched_sell_qty = 0 =>
             ResultRow.avg_buy_price = 0 /\ ResultRow.avg_sell_price = 0

\* C16 amended: each average is the quotient total / matched_sell_qty rounded
\* to the last digit the Decimal context keeps, so avg x matched_sell_qty
\* differs from the total by at most half a unit of that digit per unit
\* matched, and equals it when the quotient is exact; both averages are 0 when
\* matched_sell_qty is 0.
C16_AveragesRounded ==
    FifoDone =>
        /\ 2 * Abs(ResultRow.avg_buy_price * matched_sell_qty - total_buy_cost * 1000)
             <= matched_sell_qty
        /\ 2 * Abs(ResultRow.avg_sell_price * matched_sell_qty - total_sell_revenue * 1000)
             <= matched_sell_qty
        /\ (matched_sell_qty > 0 /\ (total_buy_cost * 1000) % matched_sell_qty = 0)
             => ResultRow.avg_buy_price * matched_sell_qty = total_buy_cost * 1000
        /\ (matched_sell_qty > 0 /\ (total_sell_revenue * 1000) % matched_sell_qty = 0)
             => ResultRow.avg_sell_price * matched_sell_qty = total_sell_revenue * 1000
        /\ matched_sell_qty = 0 =>
             ResultRow.avg_buy_price = 0 /\ ResultRow.avg_sell_price = 0

\* Lots of 1 @ 50000 and 0.5 @ 52000 were sold whole: the average buy price is
\* 152000 / 3 rounded, and its product with the quantity is not the total.
C16_Witness ==
    /\ FifoDone
    /\ matched_sell_qty = 3
    /\ total_buy_cost = 152000
    /\ ResultRow.avg_buy_price = 50666667
    /\ ResultRow.avg_buy_price * matched_sell_qty # total_buy_cost * 1000

-----------------------------------------------------------------------------
(* Properties of the commission accounting (specification SpecFifoFees)    *)

\* Sum of the positive commissions charged in an asset on the first k trades.
RECURSIVE ChargedIn(_, _)
ChargedIn(asset, k) ==
    IF k = 0 THEN 0
    ELSE ChargedIn(asset, k - 1)
         + (IF trades[k].commissionAsset = asset /\ trades[k].commission > 0
            THEN trades[k].commission ELSE 0)

\* The quote asset of each symbol drawn; none for BTCDAI.
QuoteOf(sym) ==
    IF sym = BTC \o USDT THEN USDT ELSE IF sym = ETH \o BTC THEN BTC ELSE <<>>

\* C13: net realized PnL equals gross realized PnL minus the sum of the
\* commissions charged in the symbol's quote asset on the symbol's trades; it
\* equals gross PnL when no commission was charged in the quote asset or the
\* quote asset cannot be derived from the symbol.
C13_QuoteCommission ==
    FifoDone =>
        LET gross == total_sell_revenue - total_buy_cost
            quote == QuoteOf(symbol)
        IN  /\ realized_pnl = gross
            /\ ResultRow.realized_pnl_quote =
                 IF quote = <<>> THEN gross ELSE gross - ChargedIn(quote, Len(trades))
            /\ (quote = <<>> \/ ChargedIn(quote, Len(trades)) = 0)
                 => ResultRow.realized_pnl_quote = gross

\* Both trades of a matched BTCUSDT round trip were charged in USDT: the net
\* PnL is the gross PnL less both commissions.
C13_Witness ==
    /\ FifoDone
    /\ symbol = BTC \o USDT
    /\ matched_sell_qty > 0
    /\ ChargedIn(USDT, Len(trades)) = 6
    /\ ResultRow.realized_pnl_quote = realized_pnl - 6

\* Assets named by the notes of a result.
NotedAssets(ns) ==
    { a \in FeeAssets :
        \E i \in NotesOfKind(ns, "Fees not converted") :
          \E j \in 1..Len(ns[i].assets) : ns[i].assets[j] = a }

\* C14: every asset other than the quote asset in which a positive commission
\* was charged on the symbol's trades is named in the notes of the result and
\* is not subtracted from PnL, whatever other commissions were charged.
C14_OtherFeesNoted ==
    FifoDone =>
        LET quote == QuoteOf(symbol)
        IN  /\ \A a \in FeeAssets :
                 (a # quote /\ ChargedIn(a, Len(trades)) > 0) => a \in NotedAssets(ResultRow.notes)
            /\ ResultRow.realized_pnl_quote =
                 realized_pnl - (IF quote = <<>> THEN 0 ELSE ChargedIn(quote, Len(trades)))

-----------------------------------------------------------------------------
(* Properties of the ledger ordering (specification SpecFifoOrder)         *)

Ascending(ts) == \A i, j \in 1..Len(ts) : i < j => ts[i].time <= ts[j].time

\* C15: when the trades of a symbol are given out of ascending time order the
\* engine fails instead of producing a realized-PnL result: no result row
\* exists for a ledger that was not given in ascending time order.
C15_OrderingValidated ==
    pnl_results # <<>> => Ascending(trades)

-----------------------------------------------------------------------------
(* Properties of _calculate_ta_score (specification SpecTa)                *)

TaDone == pc = "ta_done"

LastRow == ta_df[Len(ta_df)]

Defined(x) == ~x.isna

\* a > b, a < b, a = b between cells that both hold a number.
Above(a, b) == Defined(a) /\ Defined(b) /\ a.val > b.val
Below(a, b) == Defined(a) /\ Defined(b) /\ a.val < b.val
Equal(a, b) == Defined(a) /\ Defined(b) /\ a.val = b.val

\* C17: with any subset of the fields undefined the TA1 score is an integer in
\* [-4, 4]; it is +4 when RSI < 30, EMA_12 > EMA_26, MACD > MACD_Signal and
\* Close > EMA_200, -4 when RSI > 70 and the three comparisons are reversed,
\* and 0 when RSI is in [30, 70] and the three pairs are equal.
C17_ScoreBounds ==
    TaDone =>
        LET r == LastRow
        IN  /\ ta_score \in -4..4
            /\ (/\ Defined(r.RSI_14) /\ r.RSI_14.val < 30
                /\ Above(r.EMA_12, r.EMA_26) /\ Above(r.MACD, r.MACD_Signal)
                /\ Above(r.Close, r.EMA_200)) => ta_score = 4
            /\ (/\ Defined(r.RSI_14) /\ r.RSI_14.val > 70
                /\ Below(r.EMA_12, r.EMA_26) /\ Below(r.MACD, r.MACD_Signal)
                /\ Below(r.Close, r.EMA_200)) => ta_score = -4
            /\ (/\ Defined(r.RSI_14) /\ r.RSI_14.val >= 30 /\ r.RSI_14.val <= 70
                /\ Equal(r.EMA_12, r.EMA_26) /\ Equal(r.MACD, r.MACD_Signal)
                /\ Equal(r.Close, r.EMA_200)) => ta_score = 0

\* RSI exactly 30 with the three pairs equal scored 0.
C17_Witness ==
    /\ TaDone
    /\ LastRow.RSI_14 = Num(30)
    /\ Equal(LastRow.EMA_12, LastRow.EMA_26) /\ Equal(LastRow.MACD, LastRow.MACD_Signal)
    /\ Equal(LastRow.Close, LastRow.EMA_200)
    /\ ta_score = 0

\* What each term is to contribute: 0 when an input of the term has no value
\* or its operands are equal, otherwise +1 or -1 by the comparison.
RsiContribution(r) ==
    IF ~Defined(r.RSI_14) THEN 0
    ELSE IF r.RSI_14.val < 30 THEN 1 ELSE IF r.RSI_14.val > 70 THEN -1 ELSE 0

PairContribution(a, b) ==
    IF ~Defined(a) \/ ~Defined(b) \/ Equal(a, b) THEN 0
    ELSE IF Above(a, b) THEN 1 ELSE -1

-----------------------------------------------------------------------------
(* Properties of _calculate_ta2_signal (specification SpecTa2)             *)

Ta2Done == pc = "ta2_done"

\* Row t is the latest row, row t-j the j-th before it.
RowT(j) == ta_df[Len(ta_df) - j]

\* C19: with at least 9 rows, whenever MACD(t) < MACD_Signal(t) the TA2 signal
\* is SELL, whatever the other fields hold and also when every entry condition
\* holds.
C19_ExitPrecedence ==
    (Ta2Done /\ Len(ta_df) >= 9 /\ Below(RowT(0).MACD, RowT(0).MACD_Signal))
        => ta_score = -1

\* The conditions of an entry other than the one on MACD.
OtherEntryConds ==
    /\ Above(RowT(0).Close, RowT(0).EMA_200)
    /\ Above(RowT(0).Close, RowT(0).EMA_21)
    /\ Defined(RowT(1).RSI_14) /\ RowT(1).RSI_14.val <= 50
    /\ Defined(RowT(0).RSI_14) /\ RowT(0).RSI_14.val > 50
    /\ \A j \in 1..8 : Defined(RowT(j).RSI_14)
    /\ \E j \in 1..8 : RowT(j).RSI_14.val < 45
    /\ cfg.ta2_use_ema50_filter => Above(RowT(0).EMA_50, RowT(0).EMA_200)

\* MACD below its signal gave SELL on a table that satisfies every other
\* condition of an entry, with the filter on.
C19_Witness ==
    /\ Ta2Done /\ Len(ta_df) >= 9
    /\ Below(RowT(0).MACD, RowT(0).MACD_Signal)
    /\ OtherEntryConds /\ cfg.ta2_use_ema50_filter
    /\ ta_score = -1

\* C20: with at least 9 rows the TA2 signal is BUY exactly when, on the latest
\* row t, Close > EMA_200, MACD > MACD_Signal, Close > EMA_21, RSI_14(t-1) <= 50
\* and RSI_14(t) > 50, the minimum RSI_14 over rows t-8..t-1 is < 45 (a minimum
\* over rows one of which has no value is no value), and, only when the EMA50
\* filter is enabled, EMA_50 > EMA_200.  MACD equal to MACD_Signal gives HOLD,
\* and with the filter disabled the result is fixed by the fields other than
\* EMA_50.
C20_Entry ==
    (Ta2Done /\ Len(ta_df) >= 9) =>
        /\ (ta_score = 1) <=> (Above(RowT(0).MACD, RowT(0).MACD_Signal) /\ OtherEntryConds)
        /\ Equal(RowT(0).MACD, RowT(0).MACD_Signal) => ta_score = 0
        /\ ~cfg.ta2_use_ema50_filter =>
             ta_score = _calculate_ta2_signal(
                            [ta_df EXCEPT ![Len(ta_df)].EMA_50 = NaN], cfg)

\* A BUY with the filter disabled although EMA_50 is not above EMA_200, on a
\* table of exactly 9 rows whose only RSI below 45 is at row t-8.
C20_Witness ==
    /\ Ta2Done /\ Len(ta_df) = 9
    /\ ~cfg.ta2_use_ema50_filter
    /\ ~Above(RowT(0).EMA_50, RowT(0).EMA_200)
    /\ RowT(8).RSI_14 = Num(44)
    /\ \A j \in 1..7 : RowT(j).RSI_14.val >= 45
    /\ ta_score = 1

\* A cell the strategy checks holds no value.
CheckedFieldUndefined ==
    \/ ~Defined(RowT(0).MACD) \/ ~Defined(RowT(0).MACD_Signal)
    \/ ~Defined(RowT(0).Close) \/ ~Defined(RowT(0).EMA_200) \/ ~Defined(RowT(0).EMA_21)
    \/ ~Defined(RowT(0).RSI_14)
    \/ \E j \in 1..8 : ~Defined(RowT(j).RSI_14)
    \/ (cfg.ta2_use_ema50_filter /\ ~Defined(RowT(0).EMA_50))

\* C21 as stated: with at least 9 rows, if any field the strategy checks is
\* undefined (MACD, MACD_Signal, Close, EMA_200, EMA_21, RSI_14 at t or t-1,
\* any RSI_14 of rows t-8..t-1, or EMA_50 when the filter is enabled), the TA2
\* signal is HOLD.
C21_FailsClosed ==
    (Ta2Done /\ Len(ta_df) >= 9 /\ CheckedFieldUndefined) => ta_score = 0

\* C21 amended: under the same condition the signal is never BUY; it is HOLD
\* unless MACD and MACD_Signal are both defined with MACD < MACD_Signal, in
\* which case the exit rule has precedence and the signal is SELL.
C21_FailsClosedAfterExit ==
    (Ta2Done /\ Len(ta_df) >= 9 /\ CheckedFieldUndefined) =>
        ta_score = IF Below(RowT(0).MACD, RowT(0).MACD_Signal) THEN -1 ELSE 0

\* Close has no value and MACD is below its signal: SELL.
C21_Witness ==
    /\ Ta2Done /\ Len(ta_df) >= 9
    /\ ~Defined(RowT(0).Close)
    /\ Below(RowT(0).MACD, RowT(0).MACD_Signal)
    /\ ta_score = -1

\* The signal the rules give on the latest row, whatever the row count.
EvaluatedNormally ==
    IF Below(RowT(0).MACD, RowT(0).MACD_Signal) THEN -1
    ELSE IF Above(RowT(0).MACD, RowT(0).MACD_Signal) /\ OtherEntryConds THEN 1
    ELSE 0

\* C22: with fewer than 9 rows the TA2 signal is HOLD for every content of the
\* rows, including when MACD(t) < MACD_Signal(t); with exactly 9 rows the
\* signal is evaluated normally.
C22_HistoryPrecondition ==
    Ta2Done =>
        /\ Len(ta_df) < 9 => ta_score = 0
        /\ Len(ta_df) = 9 => ta_score = EvaluatedNormally

\* Eight rows with MACD below its signal: HOLD.
C22_Witness ==
    /\ Ta2Done /\ Len(ta_df) = 8
    /\ Below(RowT(0).MACD, RowT(0).MACD_Signal)
    /\ ta_score = 0

\* Every condition of an entry that does not read the lookback rows t-8..t-2.
EntryCondsBesideLookback ==
    /\ Above(RowT(0).MACD, RowT(0).MACD_Signal)
    /\ Above(RowT(0).Close, RowT(0).EMA_200)
    /\ Above(RowT(0).Close, RowT(0).EMA_21)
    /\ Defined(RowT(1).RSI_14) /\ RowT(1).RSI_14.val <= 50
    /\ Defined(RowT(0).RSI_14) /\ RowT(0).RSI_14.val > 50
    /\ cfg.ta2_use_ema50_filter => Above(RowT(0).EMA_50, RowT(0).EMA_200)

\* Other values above 50 for RSI_14(t).
HighRsiValues == { 51, 60, 100 }

\* C23: the pullback check reads exactly the 8 rows t-8..t-1: when every other
\* entry condition holds the signal is BUY if and only if those rows all hold
\* a value and one of them is below 45, so an RSI_14 below 45 only at row t-9
\* or earlier does not satisfy it; changing RSI_14(t) among values > 50 never
\* changes the result.
C23_LookbackWindow ==
    (Ta2Done /\ Len(ta_df) >= 9) =>
        /\ EntryCondsBesideLookback =>
             ((ta_score = 1) <=> (/\ \A j \in 1..8 : Defined(RowT(j).RSI_14)
                                  /\ \E j \in 1..8 : RowT(j).RSI_14.val < 45))
        /\ (Defined(RowT(0).RSI_14) /\ RowT(0).RSI_14.val > 50) =>
             \A v \in HighRsiValues :
               ta_score = _calculate_ta2_signal(
                              [ta_df EXCEPT ![Len(ta_df)].RSI_14 = Num(v)], cfg)

\* Ten rows whose only RSI_14 below 45 is at row t-9, every other entry
\* condition holding: HOLD.
C23_Witness ==
    /\ Ta2Done /\ Len(ta_df) = 10
    /\ EntryCondsBesideLookback
    /\ RowT(9).RSI_14 = Num(44)
    /\ \A j \in 1..8 : Defined(RowT(j).RSI_14) /\ RowT(j).RSI_14.val >= 45
    /\ ta_score = 0

-----------------------------------------------------------------------------
(* Properties of _calculate_rsi (specification SpecRsi)                    *)

RsiDone == pc = "rsi_done"

\* Sum of the falls of the close over the 14 steps ending at row i.
RECURSIVE FallsIn(_, _)
FallsIn(i, steps) ==
    IF steps = 0 \/ i < 2 THEN 0
    ELSE (IF prices[i] < prices[i - 1] THEN prices[i - 1] - prices[i] ELSE 0)
         + FallsIn(i - 1, steps - 1)

\* C26: for every 14-step window in which the average loss is 0, whatever the
\* average gain is in that window, RSI_14 is 100; it is never undefined there.
C26_Saturation ==
    RsiDone =>
        \A i \in 15..Len(prices) :
            FallsIn(i, 14) = 0 => rsi_14[i] = Num(10000)

\* C27: for a close series with all values defined, RSI_14 is undefined on
\* each of the first 14 output rows and the output has one row per input row.
C27_WarmUp ==
    RsiDone =>
        /\ Len(rsi_14) = Len(prices)
        /\ \A i \in 1..Len(rsi_14) : i <= 14 => rsi_14[i].isna

-----------------------------------------------------------------------------
(* Properties of the two stages together (specification SpecPipeline)      *)

\* RebalancePortfolio.run has returned at least once.
RebalanceRan == pc # "pipe_call" \/ run = 2

\* A configured currency without a portfolio row or without TA data.
Missing(c) == ~portfolio_df[c].present \/ ta_files[c] = <<>>

Without(currencies, m) == SelectSeq(currencies, LAMBDA x : x # m)

CurrenciesOf(recs) == [i \in DOMAIN recs |-> recs[i].currency]

\* C24: when a configured currency has no row in the portfolio snapshot or
\* no TA data, generate_recommendations skips that currency only: there is
\* one recommendation for each other configured currency, in the configured
\* order, and the recommendations are the ones produced when the missing
\* currency is not configured at all.
C24_SkipMissing ==
    RebalanceRan =>
        /\ CurrenciesOf(recommendations) = SelectSeq(cfg.currencies, LAMBDA x : ~Missing(x))
        /\ \A i \in DOMAIN cfg.currencies :
              LET m == cfg.currencies[i]
              IN  Missing(m) =>
                    recommendations =
                      generate_recommendations(
                        [cfg EXCEPT !.currencies = Without(cfg.currencies, m)],
                        portfolio_df, ta_files)

\* The first configured currency has no portfolio row, the second no TA
\* data, the third is recommended.
C24_Witness ==
    /\ RebalanceRan
    /\ ~portfolio_df[cfg.currencies[1]].present
    /\ portfolio_df[cfg.currencies[2]].present /\ ta_files[cfg.currencies[2]] = <<>>
    /\ CurrenciesOf(recommendations) = <<cfg.currencies[3]>>

Rule1Sells ==
    { recommendations[i].currency : i \in { j \in DOMAIN recommendations :
        recommendations[j].signal = "SELL" /\ recommendations[j].priority = 1 } }

PlanBuilding == pc \in {"plan_sells", "plan_done"}

\* C29: for one portfolio snapshot and one trade_threshold, a currency that
\* _generate_signal marks SELL with priority 1 (value below the threshold)
\* has no SELL entry in the plan built from the ranked file; no SELL entry
\* of a plan is for a position valued below the threshold; and liquid_funds
\* is the liquid asset's value plus the values of the positions that have a
\* SELL entry, so a Rule 1 recommendation adds nothing to it.
C29_NoSmallSell ==
    PlanBuilding =>
        /\ \A j \in PlanIndices("SELL") :
              /\ trade_plan[j].currency \notin Rule1Sells
              /\ ~(portfolio_df[trade_plan[j].currency].current_value_usdc < cfg.trade_threshold)
        /\ liquid_funds = InitialLiquid + SumSoldPositions(trade_plan)

\* The SELL loop has passed over a Rule 1 SELL row and a row that is sold.
C29_Witness ==
    /\ pc = "plan_done"
    /\ Rule1Sells # {}
    /\ \E i \in DOMAIN sell_recommendations : sell_recommendations[i].currency \in Rule1Sells
    /\ PlanIndices("SELL") # {}

-----------------------------------------------------------------------------
(* Properties of ExecuteTradePlan.run (specification SpecExecute)          *)

EmptyPlan == plan_file.exists /\ plan_file.rows = <<>>

\* C28: ExecuteTradePlan.run on a trade plan with zero trades returns success
\* without fetching or validating exchange info and without placing any
\* order, in live mode as in dry-run mode: no call reaches the exchange at
\* any point of the run, and the run ends with True.
C28_EmptyPlanExitsEarly ==
    EmptyPlan =>
        /\ calls = <<>>
        /\ pc = "exec_done" => run_result = "True"

-----------------------------------------------------------------------------
(* Quantity conservation of the FIFO engine (specification SpecFifoLive)   *)

\* Quantity bought, and sold, by the first k trades of the sorted ledger.
RECURSIVE BoughtQty(_)
BoughtQty(k) ==
    IF k = 0 THEN 0
    ELSE BoughtQty(k - 1) + (IF symbol_trades[k].isBuyer THEN symbol_trades[k].qty ELSE 0)

RECURSIVE SoldQty(_)
SoldQty(k) ==
    IF k = 0 THEN 0
    ELSE SoldQty(k - 1) + (IF symbol_trades[k].isBuyer THEN 0 ELSE symbol_trades[k].qty)

\* Sum of the leftovers recorded as unmatched sells.
RECURSIVE UnmatchedSellQty(_)
UnmatchedSellQty(ns) ==
    IF ns = <<>> THEN 0
    ELSE (IF Head(ns).kind = "Unmatched sell" THEN Head(ns).qty ELSE 0)
         + UnmatchedSellQty(Tail(ns))

\* Trades whose sold quantities are accounted for (a sell in progress is), and
\* the part of the sell in progress that is not yet matched or noted.
TradesDone == IF pc = "fifo_match" THEN trade_idx ELSE trade_idx - 1
SellInProgress == IF pc = "fifo_match" THEN remaining_sell_qty ELSE 0

FifoRunning == pc \in {"fifo_loop", "fifo_match", "fifo_done"}

QuantitiesConserved ==
    FifoRunning =>
        /\ BoughtQty(trade_idx - 1) = matched_sell_qty + SumQty(buy_queue)
        /\ SoldQty(TradesDone)
             = matched_sell_qty + UnmatchedSellQty(notes) + SellInProgress
        /\ \A i \in 1..Len(buy_queue) : buy_queue[i].qty > 0
        /\ remaining_sell_qty >= 0

\* C30: after any sequence of buys and sells with positive quantities, the
\* quantity bought is matched_sell_qty plus the remaining quantities of the
\* lots in the queue, the quantity sold is matched_sell_qty plus the
\* leftovers noted as unmatched sells, every lot in the queue has a
\* remaining quantity above 0, and the matching loop of every sell ends.
C30_Conservation ==
    /\ []QuantitiesConserved
    /\ (pc = "fifo_match") ~> (pc = "fifo_loop")

\* A finished ledger with a matched quantity, an unmatched leftover and an
\* open lot.
C30_Witness ==
    /\ pc = "fifo_done"
    /\ matched_sell_qty > 0
    /\ UnmatchedSellQty(notes) > 0
    /\ buy_queue # <<>>
    /\ BoughtQty(Len(symbol_trades)) = matched_sell_qty + SumQty(buy_queue)

=============================================================================
